---------------------------- MODULE Spec2Model ----------------------------
(***************************************************************************)
(* Oracle core: the scan registry (scans/registry.rs) and the              *)
(* parameterized contracts (contracts/oracle.rs, contracts/pool.rs).       *)
(*                                                                         *)
(* The specifications share the variables:                                 *)
(*   Spec / LiveSpec  the scan registry run against a node and the scans   *)
(*                    file, one RPC or file operation per step;            *)
(*   JsonSpec         load_from_json_str / save_to_json_str applied to     *)
(*                    bounded registries and bounded JSON documents;       *)
(*   ContractSpec     create / load / from_ergo_tree of OracleContract and *)
(*                    PoolContract applied to bounded scripts;             *)
(*   BootstrapSpec    the chained bootstrap run against the simulated      *)
(*                    chain of tests/bootstrap_and_run.rs;                 *)
(*   MainSpec         the loop of the Run command (main.rs), one call of   *)
(*                    main_loop_iteration per step;                        *)
(*   SourceSpec       RuntimeDataPointSource::new and get_datapoint        *)
(*                    (datapoint_source.rs) applied to bounded options.    *)
(***************************************************************************)
EXTENDS Integers, Sequences, FiniteSets, TLC

VARIABLES
    file,          \* the scans file scanIDs.json
    nodeScans,     \* scan ids the node currently has registered
    nextScanId,    \* the id the node issues at its next register_scan
    walletHeight,  \* the node's wallet scan height
    chainHeight,   \* the node's current block height
    pc,            \* position of the running call
    registry,      \* local `registry` of ensure_node_registered_scans / self
    scan_idx,      \* position of the loop of deregister_all_scans
    wallet_height, \* local `wallet_height` of wait_for_node_rescan
    block_height,  \* local `block_height` of wait_for_node_rescan
    path,          \* the running call: start, then load or register (ensure);
                   \* deregister
    log,           \* node and file operations of the running (or last) call
    polls,         \* completed unsuccessful polls of the wait (saturating)
    ret,           \* what the last call returned, with the node's heights then
    held,          \* registry the caller holds from the last Ok ensure
    calls,         \* calls started so far
    entry,         \* what the running call found when it began: the file, the
                   \* node's scans and the outcome of the call before it
    jsonIn,        \* JsonSpec: the input (a registry or a document)
    jsonOut,       \* JsonSpec: the output of the function applied
    cIn,           \* ContractSpec: the function, its parameters and script
    cOut,          \* ContractSpec: what the function returned
    boot,          \* BootstrapSpec: the bootstrap run and the simulated chain
    run,           \* MainSpec: the Run command and its current iteration
    dps            \* SourceSpec: the options, the source built and its calls

vars == <<file, nodeScans, nextScanId, walletHeight, chainHeight, pc, registry,
          scan_idx, wallet_height, block_height, path, log, polls, ret, held,
          calls, entry, jsonIn, jsonOut, cIn, cOut, boot, run, dps>>

registryVars == <<file, nodeScans, nextScanId, walletHeight, chainHeight, pc,
                  registry, scan_idx, wallet_height, block_height, path, log,
                  polls, ret, held, calls, entry>>

jsonVars == <<jsonIn, jsonOut>>

contractVars == <<cIn, cOut>>

(* the variables the scan registry leaves alone *)
pureVars == <<jsonIn, jsonOut, cIn, cOut, boot, run, dps>>

-----------------------------------------------------------------------------
(* Bounds of the model *)

MaxHeight == 2      \* the chain grows to this height at most
MaxCalls == 3       \* calls the caller starts
MaxPolls == 2       \* the poll counter saturates here
MaxScanId == 12     \* JsonSpec: registries hold scan ids 0..MaxScanId
MaxDocLen == 2      \* JsonSpec: documents hold at most this many members
MaxConstants == 2   \* ContractSpec: scripts hold at most this many constants
NumTokens == 2      \* ContractSpec: token ids 1..NumTokens
MaxFunding == 2     \* BootstrapSpec: funding blocks generated before the run
MaxIterations == 2  \* MainSpec: iterations of the main loop
NumCommands == 2    \* MainSpec: pool commands 1..NumCommands
MaxFetches == 2     \* SourceSpec: get_datapoint calls on a source
MaxDatapoint == 1   \* SourceSpec: datapoints -1..MaxDatapoint

SeqsUpTo(S, n) == UNION {[1..m -> S] : m \in 0..n}

-----------------------------------------------------------------------------
(* Results: Result<NodeScanRegistry, NodeScanRegistryError> *)

NoScanId == 0 - 1

NodeScanRegistry(id) == [oracle_token_scan |-> id]

NoRegistry == NodeScanRegistry(NoScanId)

Ok(v) == [ok |-> TRUE, val |-> v, err |-> "none"]

Err(e) == [ok |-> FALSE, val |-> NoRegistry, err |-> e]

(* The variants of NodeScanRegistryError *)
NodeScanRegistryError == {"Scan", "NodeApi", "Parse", "Io"}

-----------------------------------------------------------------------------
(* JSON text.  A text is Malformed (not a JSON object) or an Object: the   *)
(* sequence of its members in textual order, each a key and a value that   *)
(* is a JSON string (a sequence of characters) or some other JSON value.   *)

Malformed == [wf |-> FALSE, members |-> <<>>]

Object(ms) == [wf |-> TRUE, members |-> ms]

JStr(s) == [t |-> "string", s |-> s]

JOther == [t |-> "other", s |-> <<>>]

Member(k, v) == [key |-> k, val |-> v]

(* #[serde(rename = "All Datapoints Scan")] *)
OracleTokenScanKey == "All Datapoints Scan"

(* role keys of older versions (tests::parse_legacy_json) *)
LegacyKeys == {"Update Box Scan", "Pool Box Scan"}

DigitChars == <<"0", "1", "2", "3", "4", "5", "6", "7", "8", "9">>

DigitValue(c) == (CHOOSE i \in DOMAIN DigitChars : DigitChars[i] = c) - 1

IsDigit(c) == \E i \in DOMAIN DigitChars : DigitChars[i] = c

(* String::from(GenericTokenScan): the scan id in decimal *)
RECURSIVE scan_id_to_string(_)
scan_id_to_string(n) ==
    IF n < 10 THEN <<DigitChars[n + 1]>>
    ELSE Append(scan_id_to_string(n \div 10), DigitChars[(n % 10) + 1])

RECURSIVE DigitsValue(_)
DigitsValue(s) ==
    IF s = <<>> THEN 0
    ELSE 10 * DigitsValue(SubSeq(s, 1, Len(s) - 1)) + DigitValue(s[Len(s)])

(* GenericTokenScan::try_from(String): str::parse::<u64>, which takes an   *)
(* optional leading "+" and then one or more decimal digits.  (Overflow of *)
(* u64 needs 20 digits; the strings here are shorter.)                     *)
scan_id_try_from_string(s) ==
    LET digits == IF s # <<>> /\ s[1] = "+" THEN Tail(s) ELSE s
    IN  IF digits # <<>> /\ \A i \in DOMAIN digits : IsDigit(digits[i])
        THEN DigitsValue(digits)
        ELSE NoScanId

(* A faulty variant: the member is named after the field, not the rename *)
save_to_json_str_wrong_key(r) ==
    Object(<<Member("oracle_token_scan",
                    JStr(scan_id_to_string(r.oracle_token_scan)))>>)

(* serde_json::to_string_pretty(&self).unwrap(): one member, the renamed   *)
(* field, holding the scan id as a JSON string.                            *)
save_to_json_str(r) ==
    Object(<<Member(OracleTokenScanKey,
                    JStr(scan_id_to_string(r.oracle_token_scan)))>>)

(* serde_json::from_str into the derived Deserialize of NodeScanRegistry:  *)
(* unknown keys are skipped, the renamed field must occur exactly once and *)
(* hold a string that converts; every failure maps to Parse.               *)
load_parse(json_str, known) ==
    IF ~json_str.wf THEN Err("Parse")
    ELSE LET ms == json_str.members
             at == {i \in DOMAIN ms : ms[i].key \in known} IN
         IF Cardinality(at) # 1 THEN Err("Parse")
         ELSE LET v == ms[CHOOSE i \in at : TRUE].val IN
              IF v.t # "string" THEN Err("Parse")
              ELSE LET id == scan_id_try_from_string(v.s) IN
                   IF id = NoScanId THEN Err("Parse")
                   ELSE Ok(NodeScanRegistry(id))

(* A faulty variant: deny_unknown_fields *)
load_from_json_str_deny_unknown(json_str) ==
    IF json_str.wf
       /\ \E i \in DOMAIN json_str.members :
              json_str.members[i].key # OracleTokenScanKey
    THEN Err("Parse")
    ELSE load_parse(json_str, {OracleTokenScanKey})

load_from_json_str(json_str) == load_parse(json_str, {OracleTokenScanKey})

-----------------------------------------------------------------------------
(* Scripts.  An ErgoTree either has a readable list of constants or holds  *)
(* a parsing error in its place (get_constants, get_constant and           *)
(* with_constant then return Err).  A constant has a type and a value; a   *)
(* token id is a Coll[Byte] of 32 bytes.                                   *)

TokenIds == 1..NumTokens

NoTokenId == 0 - 1

(* TokenId::into(): Constant *)
TokenConstant(t) == [tpe |-> "Coll[Byte]", val |-> t]

(* a Coll[Byte] that is not 32 bytes long, and a constant of another type *)
ShortBytesConstant == [tpe |-> "Coll[Byte]", val |-> 0]

IntConstant == [tpe |-> "Int", val |-> 0]

Constants == {TokenConstant(t) : t \in TokenIds} \cup {ShortBytesConstant, IntConstant}

ErgoTree(cs) == [parsed |-> TRUE, constants |-> cs]

UnparsedErgoTree == [parsed |-> FALSE, constants |-> <<>>]

(* ErgoTree::get_constant(index): Err, Ok(None) or Ok(Some(constant)) *)
get_constant(ergo_tree, index) ==
    IF ~ergo_tree.parsed THEN [r |-> "Err", c |-> IntConstant]
    ELSE IF index + 1 \in DOMAIN ergo_tree.constants
         THEN [r |-> "Some", c |-> ergo_tree.constants[index + 1]]
         ELSE [r |-> "None", c |-> IntConstant]

(* ErgoTree::with_constant(index, constant): the constant at index is      *)
(* replaced by one of the same type; no constant there, another type or an *)
(* unreadable constant list is an ErgoTreeConstantError, whose cause is    *)
(* the error the library wraps: SetConstantError::OutOfBounds,             *)
(* SetConstantError::TypeMismatch or the parsing error of the constants.   *)
with_constant(ergo_tree, index, constant) ==
    LET g == get_constant(ergo_tree, index) IN
    IF g.r = "Some" /\ g.c.tpe = constant.tpe
    THEN [outcome |-> "Ok", cause |-> "none",
          tree |-> ErgoTree([ergo_tree.constants EXCEPT ![index + 1] = constant])]
    ELSE [outcome |-> "ErgoTreeConstant",
          cause |-> IF g.r = "Err" THEN "ParsingError"
                    ELSE IF g.r = "None" THEN "OutOfBounds" ELSE "TypeMismatch",
          tree |-> ergo_tree]

(* Constant::try_extract_into::<TokenId>() *)
try_extract_into_TokenId(c) ==
    IF c.tpe = "Coll[Byte]" /\ c.val >= 1 THEN c.val ELSE NoTokenId

(* p2s.address().script(): the script of the address or a SigmaParsingError *)
P2S(t) == [script_ok |-> TRUE, tree |-> t]

BadP2S == [script_ok |-> FALSE, tree |-> UnparsedErgoTree]

(* dbg!(ergo_tree.get_constants().unwrap()): oracle.rs line 56, pool.rs    *)
(* line 65; the unwrap panics when the constants cannot be read.           *)
dbg_get_constants_unwrap(ergo_tree) ==
    IF ergo_tree.parsed THEN "Ok" ELSE "panic"

(* A faulty variant: a constant at the slot is accepted unread *)
verify_slot_presence_only(ergo_tree, index, expected, absent, unknown) ==
    IF get_constant(ergo_tree, index).r # "Some" THEN absent ELSE "Ok"

(* One slot of from_ergo_tree: get_constant, map_err, ok_or,               *)
(* try_extract_into and the comparison with the expected token id.         *)
verify_slot(ergo_tree, index, expected, absent, unknown) ==
    LET g == get_constant(ergo_tree, index) IN
    IF g.r # "Some" THEN absent
    ELSE IF try_extract_into_TokenId(g.c) = NoTokenId THEN "TryExtractFrom"
    ELSE IF try_extract_into_TokenId(g.c) # expected THEN unknown
    ELSE "Ok"

(* What the error of a slot carries: TryExtractFrom(TryExtractFromError)   *)
(* wraps the library's message about the constant found, the other errors  *)
(* of from_ergo_tree are unit variants.                                    *)
slot_error_detail(ergo_tree, index, error) ==
    IF error = "TryExtractFrom" THEN get_constant(ergo_tree, index).c.tpe
    ELSE "none"

(* ------------------------- contracts/oracle.rs ------------------------- *)

OracleContractParameters(p2s, index, token_id) ==
    [p2s |-> p2s, pool_nft_index |-> index, pool_nft_token_id |-> token_id]

OracleContract(ergo_tree, index) ==
    [ergo_tree |-> ergo_tree, pool_nft_index |-> index]

NoOracleContract == OracleContract(UnparsedErgoTree, 0)

OracleOk(c) == [outcome |-> "Ok", detail |-> "none", contract |-> c]

(* an error variant with the value it wraps *)
OracleErrOf(e, d) == [outcome |-> e, detail |-> d, contract |-> NoOracleContract]

OracleErr(e) == OracleErrOf(e, "none")

(* OracleContract::from_ergo_tree, lines 52-71 *)
OracleContract_from_ergo_tree(ergo_tree, contract_parameters) ==
    IF dbg_get_constants_unwrap(ergo_tree) = "panic" THEN OracleErr("panic")
    ELSE LET pool_nft == verify_slot(ergo_tree,
                                     contract_parameters.pool_nft_index,
                                     contract_parameters.pool_nft_token_id,
                                     "NoPoolNftId", "UnknownPoolNftId") IN
         IF pool_nft # "Ok"
         THEN OracleErrOf(pool_nft,
                          slot_error_detail(ergo_tree,
                                            contract_parameters.pool_nft_index,
                                            pool_nft))
         ELSE OracleOk(OracleContract(ergo_tree,
                                      contract_parameters.pool_nft_index))

(* OracleContract::load, lines 32-38 *)
OracleContract_load(contract_parameters) ==
    IF ~contract_parameters.p2s.script_ok THEN OracleErr("SigmaParsing")
    ELSE OracleContract_from_ergo_tree(contract_parameters.p2s.tree,
                                       contract_parameters)

(* A faulty variant: the error of with_constant is dropped for a unit error *)
OracleContract_create_unit_error(contract_parameters) ==
    IF ~contract_parameters.p2s.script_ok THEN OracleErr("SigmaParsing")
    ELSE LET bound == with_constant(
                        contract_parameters.p2s.tree,
                        contract_parameters.pool_nft_index,
                        TokenConstant(contract_parameters.pool_nft_token_id)) IN
         IF bound.outcome # "Ok" THEN OracleErr(bound.outcome)
         ELSE OracleContract_from_ergo_tree(bound.tree, contract_parameters)

(* OracleContract::create, lines 40-49 *)
OracleContract_create(contract_parameters) ==
    IF ~contract_parameters.p2s.script_ok THEN OracleErr("SigmaParsing")
    ELSE LET bound == with_constant(
                        contract_parameters.p2s.tree,
                        contract_parameters.pool_nft_index,
                        TokenConstant(contract_parameters.pool_nft_token_id)) IN
         IF bound.outcome # "Ok" THEN OracleErrOf(bound.outcome, bound.cause)
         ELSE OracleContract_from_ergo_tree(bound.tree, contract_parameters)

(* The accessors: get_constant(..).unwrap().unwrap().try_extract_into()    *)
(* .unwrap(); NoTokenId stands for a panic.                                *)
slot_token_id_unwrap(ergo_tree, index) ==
    LET g == get_constant(ergo_tree, index) IN
    IF g.r # "Some" THEN NoTokenId ELSE try_extract_into_TokenId(g.c)

(* OracleContract::pool_nft_token_id, lines 77-84 *)
OracleContract_pool_nft_token_id(c) ==
    slot_token_id_unwrap(c.ergo_tree, c.pool_nft_index)

(* -------------------------- contracts/pool.rs -------------------------- *)

PoolContractParameters(p2s, refresh_index, refresh_id, update_index, update_id) ==
    [p2s |-> p2s,
     refresh_nft_index |-> refresh_index, refresh_nft_token_id |-> refresh_id,
     update_nft_index |-> update_index, update_nft_token_id |-> update_id]

PoolContract(ergo_tree, refresh_index, update_index) ==
    [ergo_tree |-> ergo_tree, refresh_nft_index |-> refresh_index,
     update_nft_index |-> update_index]

NoPoolContract == PoolContract(UnparsedErgoTree, 0, 0)

PoolOk(c) == [outcome |-> "Ok", detail |-> "none", contract |-> c]

PoolErrOf(e, d) == [outcome |-> e, detail |-> d, contract |-> NoPoolContract]

PoolErr(e) == PoolErrOf(e, "none")

(* A faulty variant: the update slot is never compared *)
PoolContract_from_ergo_tree_refresh_only(ergo_tree, parameters) ==
    IF dbg_get_constants_unwrap(ergo_tree) = "panic" THEN PoolErr("panic")
    ELSE LET refresh_nft == verify_slot(ergo_tree, parameters.refresh_nft_index,
                                        parameters.refresh_nft_token_id,
                                        "NoRefreshNftId", "UnknownRefreshNftId") IN
         IF refresh_nft # "Ok" THEN PoolErr(refresh_nft)
         ELSE PoolOk(PoolContract(ergo_tree, parameters.refresh_nft_index,
                                  parameters.update_nft_index))

(* A faulty variant: the update slot is verified before the refresh slot *)
PoolContract_from_ergo_tree_update_first(ergo_tree, parameters) ==
    IF dbg_get_constants_unwrap(ergo_tree) = "panic" THEN PoolErr("panic")
    ELSE LET refresh_nft == verify_slot(ergo_tree, parameters.refresh_nft_index,
                                        parameters.refresh_nft_token_id,
                                        "NoRefreshNftId", "UnknownRefreshNftId")
             update_nft == verify_slot(ergo_tree, parameters.update_nft_index,
                                       parameters.update_nft_token_id,
                                       "NoUpdateNftId", "UnknownUpdateNftId") IN
         IF update_nft # "Ok"
         THEN PoolErrOf(update_nft,
                        slot_error_detail(ergo_tree, parameters.update_nft_index,
                                          update_nft))
         ELSE IF refresh_nft # "Ok"
         THEN PoolErrOf(refresh_nft,
                        slot_error_detail(ergo_tree, parameters.refresh_nft_index,
                                          refresh_nft))
         ELSE PoolOk(PoolContract(ergo_tree, parameters.refresh_nft_index,
                                  parameters.update_nft_index))

(* PoolContract::from_ergo_tree, lines 61-88 *)
PoolContract_from_ergo_tree(ergo_tree, parameters) ==
    IF dbg_get_constants_unwrap(ergo_tree) = "panic" THEN PoolErr("panic")
    ELSE LET refresh_nft == verify_slot(ergo_tree, parameters.refresh_nft_index,
                                        parameters.refresh_nft_token_id,
                                        "NoRefreshNftId", "UnknownRefreshNftId")
             update_nft == verify_slot(ergo_tree, parameters.update_nft_index,
                                       parameters.update_nft_token_id,
                                       "NoUpdateNftId", "UnknownUpdateNftId") IN
         IF refresh_nft # "Ok"
         THEN PoolErrOf(refresh_nft,
                        slot_error_detail(ergo_tree, parameters.refresh_nft_index,
                                          refresh_nft))
         ELSE IF update_nft # "Ok"
         THEN PoolErrOf(update_nft,
                        slot_error_detail(ergo_tree, parameters.update_nft_index,
                                          update_nft))
         ELSE PoolOk(PoolContract(ergo_tree, parameters.refresh_nft_index,
                                  parameters.update_nft_index))

(* PoolContract::load, lines 55-59 *)
PoolContract_load(parameters) ==
    IF ~parameters.p2s.script_ok THEN PoolErr("SigmaParsing")
    ELSE PoolContract_from_ergo_tree(parameters.p2s.tree, parameters)

(* A faulty variant: the refresh id is bound at both slots *)
PoolContract_create_binding_refresh_twice(parameters) ==
    <<parameters.refresh_nft_token_id, parameters.refresh_nft_token_id>>

(* pool.rs lines 45 and 49: the ids create binds at the two slots *)
PoolContract_create_binding(parameters) ==
    <<parameters.refresh_nft_token_id, parameters.update_nft_token_id>>

(* A faulty variant: the update id is substituted before the refresh id *)
PoolContract_create_update_first(parameters) ==
    IF ~parameters.p2s.script_ok THEN PoolErr("SigmaParsing")
    ELSE LET ids == PoolContract_create_binding(parameters)
             first == with_constant(parameters.p2s.tree,
                                    parameters.update_nft_index,
                                    TokenConstant(ids[2])) IN
         IF first.outcome # "Ok" THEN PoolErrOf(first.outcome, first.cause)
         ELSE LET second == with_constant(first.tree,
                                          parameters.refresh_nft_index,
                                          TokenConstant(ids[1])) IN
              IF second.outcome # "Ok" THEN PoolErrOf(second.outcome, second.cause)
              ELSE PoolContract_from_ergo_tree(second.tree, parameters)

(* PoolContract::create, lines 38-53 *)
PoolContract_create(parameters) ==
    IF ~parameters.p2s.script_ok THEN PoolErr("SigmaParsing")
    ELSE LET ids == PoolContract_create_binding(parameters)
             first == with_constant(parameters.p2s.tree,
                                    parameters.refresh_nft_index,
                                    TokenConstant(ids[1])) IN
         IF first.outcome # "Ok" THEN PoolErrOf(first.outcome, first.cause)
         ELSE LET second == with_constant(first.tree,
                                          parameters.update_nft_index,
                                          TokenConstant(ids[2])) IN
              IF second.outcome # "Ok" THEN PoolErrOf(second.outcome, second.cause)
              ELSE PoolContract_from_ergo_tree(second.tree, parameters)

(* PoolContract::refresh_nft_token_id, lines 94-101 *)
PoolContract_refresh_nft_token_id(c) ==
    slot_token_id_unwrap(c.ergo_tree, c.refresh_nft_index)

(* PoolContract::update_nft_token_id, lines 103-110 *)
PoolContract_update_nft_token_id(c) ==
    slot_token_id_unwrap(c.ergo_tree, c.update_nft_index)

(* ContractSpec at rest *)
ContractAtRest ==
    /\ cIn = [contract |-> "none", fn |-> "none",
              params |-> OracleContractParameters(BadP2S, 0, 1),
              tree |-> UnparsedErgoTree]
    /\ cOut = [stage |-> "none", res |-> OracleErr("none"),
               check |-> OracleErr("none")]

-----------------------------------------------------------------------------
(* The chained bootstrap: tests/bootstrap_and_run.rs runs                  *)
(* perform_bootstrap_chained_transaction against a ChainSim through        *)
(* ChainSubmitTx.  The orchestrator itself is the one described in section *)
(* 4.3 of the specification: one transaction per object to create, tokens  *)
(* minted before the contracts that embed their ids, each transaction      *)
(* built, signed and submitted in turn, each contract-bound box verified.  *)

(* The objects of a run in dependency order: seven transactions. *)
MintStep(t) == [kind |-> "mint", token |-> t, contract |-> "none"]

BoxStep(c) == [kind |-> "box", token |-> "none", contract |-> c]

BootstrapSteps ==
    << MintStep("pool_nft"), MintStep("refresh_nft"), MintStep("update_nft"),
       MintStep("oracle_token"), MintStep("reward_token"),
       BoxStep("pool"), BoxStep("oracle") >>

TokenNames == {"pool_nft", "refresh_nft", "update_nft", "oracle_token", "reward_token"}

(* the tokens whose ids a contract embeds as script constants:             *)
(* PoolContractParameters and OracleContractParameters                     *)
Embeds(c) ==
    IF c = "pool" THEN {"refresh_nft", "update_nft"}
    ELSE IF c = "oracle" THEN {"pool_nft"}
    ELSE {}

(* a script without constants: the wallet's address *)
P2PkScript == ErgoTree(<<>>)

(* A box: its id, the step whose transaction created it (0: funding), the  *)
(* id of the token minted into it, its guarding script.                    *)
ErgoBox(id, step, token, tree) ==
    [box_id |-> id, step |-> step, token |-> token, ergo_tree |-> tree]

(* A transaction: a minted token's id is the id of the first input box. *)
Transaction(step, input, minted, outputs) ==
    [step |-> step, input |-> input, minted |-> minted, outputs |-> outputs]

NoTransaction == Transaction(0, 0, NoTokenId, {})

(* ChainSim::new() *)
ChainSim_new == [height |-> 0, blocks |-> <<>>, unspent_boxes |-> {}]

(* A faulty variant: a new block replaces the unspent boxes *)
add_block_replace_unspent(chain, tx) ==
    [height |-> chain.height + 1,
     blocks |-> Append(chain.blocks, tx),
     unspent_boxes |-> tx.outputs]

(* ChainSim::add_block(Block::new(vec![tx])) *)
add_block(chain, tx) ==
    [height |-> chain.height + 1,
     blocks |-> Append(chain.blocks, tx),
     unspent_boxes |-> {b \in chain.unspent_boxes : b.box_id # tx.input}
                         \cup tx.outputs]

(* chain.generate_unspent_box(address.script(), value, None): a funding    *)
(* block holding one box of the wallet                                     *)
generate_unspent_box(chain) ==
    add_block(chain,
              Transaction(0, 0, NoTokenId,
                          {ErgoBox(chain.height + 1, 0, NoTokenId, P2PkScript)}))

RECURSIVE FundedChain(_)
(* the chain after n funding blocks *)
FundedChain(n) ==
    IF n = 0 THEN ChainSim_new ELSE generate_unspent_box(FundedChain(n - 1))

(* chain.get_unspent_boxes(&address.script()) *)
get_unspent_boxes(chain) ==
    {b \in chain.unspent_boxes : b.ergo_tree = P2PkScript}

(* Faulty variants of the submitter: the transaction is reported submitted *)
(* without reaching the chain; it reaches the chain twice.                 *)
submit_transaction_no_block(chain, tx) ==
    [chain |-> chain, ok |-> TRUE, tx_id |-> tx.step]

submit_transaction_two_blocks(chain, tx) ==
    [chain |-> add_block(add_block(chain, tx), tx), ok |-> TRUE, tx_id |-> tx.step]

(* Further faulty variants: the transaction reaches the chain without the *)
(* token it mints.                                                         *)
submit_transaction_strip_mint(chain, tx) ==
    [chain |-> add_block(chain, [tx EXCEPT !.minted = NoTokenId]),
     ok |-> TRUE, tx_id |-> tx.step]

(* ChainSubmitTx::submit_transaction, lines 31-36 *)
submit_transaction(chain, tx) ==
    [chain |-> add_block(chain, tx), ok |-> TRUE, tx_id |-> tx.step]

(* BootstrapConfig::default(): the contract parameters, whose token ids    *)
(* the run replaces by the ids it mints                                    *)
BootstrapConfig(pool_p2s, oracle_p2s) ==
    [pool_contract_parameters |-> PoolContractParameters(pool_p2s, 0, 1, 1, 1),
     oracle_contract_parameters |-> OracleContractParameters(oracle_p2s, 0, 1)]

(* the templates of the configuration: the default ones, and ones whose    *)
(* constant at a slot is not a token id's                                  *)
PoolTemplates ==
    {P2S(ErgoTree(<<TokenConstant(1), TokenConstant(1)>>)),
     P2S(ErgoTree(<<TokenConstant(1), IntConstant>>))}

OracleTemplates ==
    {P2S(ErgoTree(<<TokenConstant(1)>>)), P2S(ErgoTree(<<>>))}

NoTokens == [t \in TokenNames |-> NoTokenId]

BootLogEntry(op, step, ok) == [op |-> op, step |-> step, ok |-> ok]

(* the run's result: OracleConfig or the step and cause of the failure *)
NoBootResult ==
    [outcome |-> "none", step |-> 0, cause |-> "none", tokens |-> NoTokens,
     pool_contract |-> NoPoolContract, oracle_contract |-> NoOracleContract]

BootIdle ==
    [pc |-> "none", submitter |-> "none",
     config |-> BootstrapConfig(BadP2S, BadP2S),
     chain |-> ChainSim_new, start |-> 0, step |-> 0, input |-> 0,
     next_box |-> 0, tokens |-> NoTokens, tx |-> NoTransaction,
     pool_contract |-> NoPoolContract, oracle_contract |-> NoOracleContract,
     log |-> <<>>, result |-> NoBootResult]

(* BootstrapSpec at rest *)
BootAtRest == boot = BootIdle

-----------------------------------------------------------------------------
(* main.rs: the Run command.  The loop of lines 198-205 calls              *)
(* main_loop_iteration and ends the process when it returns an error.      *)

(* exitcode::SOFTWARE, lines 201 *)
SOFTWARE == 70

NoExit == 0 - 1

(* no height read yet in this iteration *)
NoBlockHeight == 0 - 1

(* PoolState, lines 296-299 *)
PoolStates == {"LiveEpoch", "NeedsBootstrap"}

(* the commands process may return, Some(cmd) of line 300 *)
PoolCommands == 1..NumCommands

NoCommand == 0

(* what build_action is given, lines 301-307: the command and the height  *)
(* (heights of the model are far below 2^32, where `as u32` cuts)         *)
PoolAction(cmd, height) == [cmd |-> cmd, height |-> height]

NoAction == PoolAction(NoCommand, 0)

CallLog(op, ok) == [op |-> op, ok |-> ok]

(* A faulty variant: the action is executed whatever the flag *)
should_execute_always(read_only) == TRUE

(* line 308: if !read_only *)
should_execute(read_only) == ~read_only

(* The Run command before it starts *)
MainIdle ==
    [pc |-> "none", read_only |-> FALSE, iteration |-> 0,
     height |-> NoBlockHeight,
     pool_state |-> "none", cmd |-> NoCommand, action |-> NoAction,
     log |-> <<>>, executed |-> <<>>, exit |-> NoExit]

(* MainSpec at rest *)
MainAtRest == run = MainIdle

-----------------------------------------------------------------------------
(* datapoint_source.rs: RuntimeDataPointSource *)

None == [some |-> FALSE, value |-> "none"]

Some(v) == [some |-> TRUE, value |-> v]

(* PredefinedDataPointSource: the sources of the modules of lines 2-11 *)
PredefinedDataPointSources == {"NanoErgUsd", "NanoErgXau", "NanoAdaUsd"}

(* shell commands of data_point_source_custom_script; one is empty *)
ShellCommands == {"", "fetch.sh", "price.py"}

(* the variants of RuntimeDataPointSource, lines 53-56 *)
Predefined(p) == [variant |-> "Predefined", of |-> p]

ExternalScript(name) == [variant |-> "ExternalScript", of |-> name]

NoSource == [variant |-> "none", of |-> "none"]

(* A faulty variant: the predefined source wins when both are given *)
RuntimeDataPointSource_new_predef_first(predef_datapoint_source, custom_datapoint_source_shell_cmd) ==
    IF predef_datapoint_source.some
    THEN [ok |-> TRUE, val |-> Predefined(predef_datapoint_source.value)]
    ELSE IF custom_datapoint_source_shell_cmd.some
    THEN [ok |-> TRUE,
          val |-> ExternalScript(custom_datapoint_source_shell_cmd.value)]
    ELSE [ok |-> FALSE, val |-> NoSource]

(* RuntimeDataPointSource::new, lines 59-75 *)
RuntimeDataPointSource_new(predef_datapoint_source, custom_datapoint_source_shell_cmd) ==
    IF custom_datapoint_source_shell_cmd.some
    THEN [ok |-> TRUE,
          val |-> ExternalScript(custom_datapoint_source_shell_cmd.value)]
    ELSE IF predef_datapoint_source.some
    THEN [ok |-> TRUE, val |-> Predefined(predef_datapoint_source.value)]
    ELSE [ok |-> FALSE, val |-> NoSource]

(* a call get_datapoint makes: the function and what it is applied to *)
SourceCall(fn, arg) == [fn |-> fn, arg |-> arg]

(* get_datapoint, lines 79-86: the match on self *)
get_datapoint_dispatch(self) ==
    IF self.variant = "Predefined"
    THEN SourceCall("sync_fetch_predef_source_aggregated", self.of)
    ELSE SourceCall("ExternalScript::get_datapoint", self.of)

(* DataPointSourceError, lines 42-51 *)
DataPointSourceError ==
    {"ExternalScript", "Reqwest", "JsonParse", "JsonMissingField"}

(* Result<i64, DataPointSourceError> *)
DatapointResults ==
    {[ok |-> TRUE, val |-> v, err |-> "none"] : v \in (0 - 1)..MaxDatapoint}
    \cup {[ok |-> FALSE, val |-> 0, err |-> e] : e \in DataPointSourceError}

SourceIdle ==
    [pc |-> "none", predef |-> None, custom |-> None, source |-> NoSource,
     new_ok |-> FALSE, calls |-> <<>>, results |-> <<>>]

(* SourceSpec at rest *)
SourceAtRest == dps = SourceIdle

-----------------------------------------------------------------------------
(* The scans file: absent, present but unreadable, or a text. *)

FileAbsent == [kind |-> "absent", text |-> Malformed]

FileUnreadable == [kind |-> "unreadable", text |-> Malformed]

FileText(t) == [kind |-> "text", text |-> t]

(* A scan id persisted by an earlier run *)
PersistedScanId == 7

(* The files a run may find: none, an unreadable one, a malformed one, one *)
(* an earlier run saved, and one an older version saved (legacy roles).    *)
InitialFiles ==
    { FileAbsent,
      FileUnreadable,
      FileText(Malformed),
      FileText(save_to_json_str(NodeScanRegistry(PersistedScanId))),
      FileText(Object(<<Member("Update Box Scan", JStr(<<"8">>))>>
                      \o save_to_json_str(NodeScanRegistry(PersistedScanId)).members)) }

(* The first id the node issues: ids cross from one digit to two *)
FirstNodeScanId == 9

NoHeight == 0 - 1

LogEntry(op, ok, arg) == [op |-> op, ok |-> ok, arg |-> arg]

NoReturn ==
    [op |-> "none", ok |-> FALSE, val |-> NoRegistry, err |-> "none",
     wallet |-> NoHeight, chain |-> NoHeight]

(* What a call finds when it begins: the file, the node's scans, and what *)
(* the call before it did (its path, its operations and what it returned) *)
CallEntry(f, scans, prev_path, prev_log, prev_ret) ==
    [file |-> f, nodeScans |-> scans, path |-> prev_path, log |-> prev_log,
     ret |-> prev_ret]

JsonIdle == [stage |-> "none", doc |-> Malformed, res |-> Err("none")]

(* JsonSpec at rest *)
JsonAtRest ==
    /\ jsonIn = [fn |-> "none", reg |-> NoRegistry, doc |-> Malformed]
    /\ jsonOut = JsonIdle

RegistryInit ==
    /\ file \in InitialFiles
    /\ nodeScans = IF file.kind = "text" /\ file.text.wf
                   THEN {PersistedScanId} ELSE {}
    /\ nextScanId = FirstNodeScanId
    /\ chainHeight = 1
    /\ walletHeight \in 0..1
    /\ pc = "idle"
    /\ registry = NoRegistry
    /\ scan_idx = 0
    /\ wallet_height = NoHeight
    /\ block_height = NoHeight
    /\ path = "none"
    /\ log = <<>>
    /\ polls = 0
    /\ ret = NoReturn
    /\ held = NoRegistry
    /\ calls = 0
    /\ entry = CallEntry(file, nodeScans, "none", <<>>, NoReturn)

(* The scan registry at rest: no file, an idle node, no call *)
RegistryAtRest ==
    /\ file = FileAbsent
    /\ nodeScans = {}
    /\ nextScanId = FirstNodeScanId
    /\ chainHeight = 1
    /\ walletHeight = 1
    /\ pc = "idle"
    /\ registry = NoRegistry
    /\ scan_idx = 0
    /\ wallet_height = NoHeight
    /\ block_height = NoHeight
    /\ path = "none"
    /\ log = <<>>
    /\ polls = 0
    /\ ret = NoReturn
    /\ held = NoRegistry
    /\ calls = 0
    /\ entry = CallEntry(FileAbsent, {}, "none", <<>>, NoReturn)

nodeVars == <<nodeScans, nextScanId, walletHeight, chainHeight>>

localVars == <<registry, scan_idx, wallet_height, block_height, path, polls>>

(* The running call returns r to the caller.  ret keeps the node's heights *)
(* at this moment; the caller keeps the registry of an Ok ensure.          *)
Return(op, r) ==
    /\ pc' = "idle"
    /\ ret' = [op |-> op, ok |-> r.ok, val |-> r.val, err |-> r.err,
               wallet |-> walletHeight, chain |-> chainHeight]
    /\ held' = IF op = "ensure" /\ r.ok THEN r.val ELSE held

(* The caller calls NodeScanRegistry::ensure_node_registered_scans *)
CallEnsure ==
    /\ pc = "idle"
    /\ calls < MaxCalls
    /\ calls' = calls + 1
    /\ pc' = "ensure"
    /\ registry' = NoRegistry
    /\ scan_idx' = 0
    /\ wallet_height' = NoHeight
    /\ block_height' = NoHeight
    /\ path' = "start"
    /\ log' = <<>>
    /\ polls' = 0
    /\ entry' = CallEntry(file, nodeScans, path, log, ret)
    /\ UNCHANGED <<file, nodeVars, ret, held, pureVars>>

(* A faulty variant: a loaded registry is written back to the file *)
ensure_read_file_resave ==
    /\ pc = "ensure"
    /\ IF file.kind = "text"
       THEN LET r == load_from_json_str(file.text) IN
            IF r.ok
            THEN /\ registry' = r.val
                 /\ file' = FileText(save_to_json_str(r.val))
                 /\ path' = "load"
                 /\ pc' = "wait_wallet"
                 /\ UNCHANGED <<ret, held>>
            ELSE /\ Return("ensure", r)
                 /\ path' = "load"
                 /\ UNCHANGED <<registry, file>>
       ELSE /\ path' = "register"
            /\ pc' = "register"
            /\ UNCHANGED <<registry, ret, held, file>>
    /\ UNCHANGED <<nodeVars, scan_idx, wallet_height, block_height, log,
                   polls, calls, entry, pureVars>>

(* NodeScanRegistry::load, lines 57-64: read_to_string's failure maps to   *)
(* Io and returns at the `?`; a text goes to load_from_json_str.           *)
NodeScanRegistry_load(f) ==
    IF f.kind # "text" THEN Err("Io") ELSE load_from_json_str(f.text)

(* A faulty variant: a text that does not parse falls back to registration *)
ensure_read_file_fallback_register ==
    /\ pc = "ensure"
    /\ IF file.kind = "text" /\ load_from_json_str(file.text).ok
       THEN /\ registry' = load_from_json_str(file.text).val
            /\ path' = "load"
            /\ pc' = "wait_wallet"
       ELSE /\ path' = "register"
            /\ pc' = "register"
            /\ UNCHANGED registry
    /\ UNCHANGED <<file, nodeVars, scan_idx, wallet_height, block_height, log,
                   polls, ret, held, calls, entry, pureVars>>

(* A faulty variant: the file is read as NodeScanRegistry::load reads it *)
ensure_read_file_as_load ==
    /\ pc = "ensure"
    /\ LET r == NodeScanRegistry_load(file) IN
       IF r.ok
       THEN /\ registry' = r.val
            /\ path' = "load"
            /\ pc' = "wait_wallet"
            /\ UNCHANGED <<ret, held>>
       ELSE /\ Return("ensure", r)
            /\ path' = IF file.kind = "text" THEN "load" ELSE "register"
            /\ UNCHANGED registry
    /\ UNCHANGED <<file, nodeVars, scan_idx, wallet_height, block_height, log,
                   polls, calls, entry, pureVars>>

(* A faulty variant: a loaded registry asks the node for the rescan again *)
ensure_read_file_rescan_on_load ==
    /\ pc = "ensure"
    /\ IF file.kind = "text"
       THEN LET r == load_from_json_str(file.text) IN
            IF r.ok
            THEN /\ registry' = r.val
                 /\ path' = "load"
                 /\ pc' = "rescan"
                 /\ UNCHANGED <<ret, held>>
            ELSE /\ Return("ensure", r)
                 /\ path' = "load"
                 /\ UNCHANGED registry
       ELSE /\ path' = "register"
            /\ pc' = "register"
            /\ UNCHANGED <<registry, ret, held>>
    /\ UNCHANGED <<file, nodeVars, scan_idx, wallet_height, block_height, log,
                   polls, calls, entry, pureVars>>

(* ensure_node_registered_scans, lines 69-75: read the file; a text is     *)
(* parsed (`?` returns the Parse error), anything else goes to register.   *)
ensure_read_file ==
    /\ pc = "ensure"
    /\ IF file.kind = "text"
       THEN LET r == load_from_json_str(file.text) IN
            IF r.ok
            THEN /\ registry' = r.val
                 /\ path' = "load"
                 /\ pc' = "wait_wallet"
                 /\ UNCHANGED <<ret, held>>
            ELSE /\ Return("ensure", r)
                 /\ path' = "load"
                 /\ UNCHANGED registry
       ELSE /\ path' = "register"
            /\ pc' = "register"
            /\ UNCHANGED <<registry, ret, held>>
    /\ UNCHANGED <<file, nodeVars, scan_idx, wallet_height, block_height, log,
                   polls, calls, entry, pureVars>>

(* register_and_save_scans_inner, lines 49-51: GenericTokenScan::register  *)
register_scan ==
    /\ pc = "register"
    /\ \E success \in BOOLEAN :
         IF success
         THEN /\ nodeScans' = nodeScans \cup {nextScanId}
              /\ nextScanId' = nextScanId + 1
              /\ registry' = NodeScanRegistry(nextScanId)
              /\ log' = Append(log, LogEntry("register_scan", TRUE, nextScanId))
              /\ pc' = "save"
              /\ UNCHANGED <<ret, held>>
         ELSE /\ log' = Append(log, LogEntry("register_scan", FALSE, NoScanId))
              /\ Return("ensure", Err("Scan"))
              /\ UNCHANGED <<nodeScans, nextScanId, registry>>
    /\ UNCHANGED <<file, walletHeight, chainHeight, scan_idx, wallet_height,
                   block_height, path, polls, calls, entry, pureVars>>

(* A faulty variant: the result of the write is dropped *)
save_to_json_file_ignore_error ==
    /\ pc = "save"
    /\ \E outcome \in {"written", "create_failed", "write_failed"} :
         /\ log' = Append(log, LogEntry("write", outcome = "written",
                                        registry.oracle_token_scan))
         /\ file' = IF outcome = "written"
                    THEN FileText(save_to_json_str(registry))
                    ELSE IF outcome = "create_failed" THEN file
                    ELSE FileText(Malformed)
         /\ pc' = "rescan"
         /\ UNCHANGED <<ret, held>>
    /\ UNCHANGED <<nodeVars, localVars, calls, entry, pureVars>>

(* A faulty variant: the failure of the write is reported as a Parse error *)
save_to_json_file_parse_error ==
    /\ pc = "save"
    /\ \E outcome \in {"written", "create_failed", "write_failed"} :
         /\ log' = Append(log, LogEntry("write", outcome = "written",
                                        registry.oracle_token_scan))
         /\ IF outcome = "written"
            THEN /\ file' = FileText(save_to_json_str(registry))
                 /\ pc' = "rescan"
                 /\ UNCHANGED <<ret, held>>
            ELSE /\ file' = IF outcome = "create_failed" THEN file
                            ELSE FileText(Malformed)
                 /\ Return("ensure", Err("Parse"))
    /\ UNCHANGED <<nodeVars, localVars, calls, entry, pureVars>>

(* save_to_json_file, lines 38-42, called at line 52.  std::fs::write      *)
(* creates or truncates the file and then writes: a failure leaves the     *)
(* file as it was (create failed) or cut short (the write failed).         *)
save_to_json_file ==
    /\ pc = "save"
    /\ \E outcome \in {"written", "create_failed", "write_failed"} :
         /\ log' = Append(log, LogEntry("write", outcome = "written",
                                        registry.oracle_token_scan))
         /\ IF outcome = "written"
            THEN /\ file' = FileText(save_to_json_str(registry))
                 /\ pc' = "rescan"
                 /\ UNCHANGED <<ret, held>>
            ELSE /\ file' = IF outcome = "create_failed" THEN file
                            ELSE FileText(Malformed)
                 /\ Return("ensure", Err("Io"))
    /\ UNCHANGED <<nodeVars, localVars, calls, entry, pureVars>>

(* register_and_save_scans_inner, line 53: node_api.rescan_from_height(0); *)
(* the node restarts its wallet scan at the height asked for.              *)
rescan_from_height ==
    /\ pc = "rescan"
    /\ \E success \in BOOLEAN :
         /\ log' = Append(log, LogEntry("rescan_from_height", success, 0))
         /\ IF success
            THEN /\ walletHeight' = 0
                 /\ pc' = "wait_wallet"
                 /\ UNCHANGED <<ret, held>>
            ELSE /\ Return("ensure", Err("NodeApi"))
                 /\ UNCHANGED walletHeight
    /\ UNCHANGED <<file, nodeScans, nextScanId, chainHeight, localVars, calls,
                   entry, pureVars>>

-----------------------------------------------------------------------------
(* wait_for_node_rescan, lines 92-108.  The two heights come from two      *)
(* separate RPC calls; the comparison runs after both have answered.       *)

(* node_api.node.wallet_status()?.height at position `from` *)
wallet_status(from, to) ==
    /\ pc = from
    /\ \E success \in BOOLEAN :
         IF success
         THEN /\ wallet_height' = walletHeight
              /\ pc' = to
              /\ UNCHANGED <<ret, held>>
         ELSE /\ Return("ensure", Err("NodeApi"))
              /\ UNCHANGED wallet_height
    /\ UNCHANGED <<file, nodeVars, registry, scan_idx, block_height, path, log,
                   polls, calls, entry, pureVars>>

(* node_api.node.current_block_height()? at position `from` *)
current_block_height(from, to) ==
    /\ pc = from
    /\ \E success \in BOOLEAN :
         IF success
         THEN /\ block_height' = chainHeight
              /\ pc' = to
              /\ UNCHANGED <<ret, held>>
         ELSE /\ Return("ensure", Err("NodeApi"))
              /\ UNCHANGED block_height
    /\ UNCHANGED <<file, nodeVars, registry, scan_idx, wallet_height, path, log,
                   polls, calls, entry, pureVars>>

(* A faulty variant: the wait ends one block early *)
heights_equal_off_by_one(w, b) == w = b \/ w + 1 = b

(* the test that ends the wait, lines 95 and 102 *)
heights_equal(w, b) == w = b

(* lines 93-97: the check before the loop *)
wait_wallet_status == wallet_status("wait_wallet", "wait_block")

wait_block_height == current_block_height("wait_block", "wait_compare")

(* On Ok, ensure_node_registered_scans returns Ok(registry), lines 76-77 *)
wait_compare ==
    /\ pc = "wait_compare"
    /\ IF heights_equal(wallet_height, block_height)
       THEN Return("ensure", Ok(registry))
       ELSE pc' = "loop_wallet" /\ UNCHANGED <<ret, held>>
    /\ UNCHANGED <<file, nodeVars, localVars, log, calls, entry, pureVars>>

(* lines 98-107: the loop *)
loop_wallet_status == wallet_status("loop_wallet", "loop_block")

loop_block_height == current_block_height("loop_block", "loop_compare")

(* A faulty variant: the wallet height is read once, before the loop *)
loop_compare_stale_wallet ==
    /\ pc = "loop_compare"
    /\ IF heights_equal(wallet_height, block_height)
       THEN Return("ensure", Ok(registry)) /\ UNCHANGED polls
       ELSE /\ pc' = "loop_block"
            /\ polls' = IF polls < MaxPolls THEN polls + 1 ELSE polls
            /\ UNCHANGED <<ret, held>>
    /\ UNCHANGED <<file, nodeVars, registry, scan_idx, wallet_height,
                   block_height, path, log, calls, entry, pureVars>>

(* A faulty variant: the wait gives up after MaxPolls unsuccessful polls *)
loop_compare_give_up ==
    /\ pc = "loop_compare"
    /\ IF heights_equal(wallet_height, block_height)
       THEN Return("ensure", Ok(registry)) /\ UNCHANGED polls
       ELSE IF polls = MaxPolls
       THEN Return("ensure", Err("NodeApi")) /\ UNCHANGED polls
       ELSE /\ pc' = "loop_wallet"
            /\ polls' = IF polls < MaxPolls THEN polls + 1 ELSE polls
            /\ UNCHANGED <<ret, held>>
    /\ UNCHANGED <<file, nodeVars, registry, scan_idx, wallet_height,
                   block_height, path, log, calls, entry, pureVars>>

(* lines 101-106: break on equal heights, else sleep and poll again *)
loop_compare ==
    /\ pc = "loop_compare"
    /\ IF heights_equal(wallet_height, block_height)
       THEN Return("ensure", Ok(registry)) /\ UNCHANGED polls
       ELSE /\ pc' = "loop_wallet"
            /\ polls' = IF polls < MaxPolls THEN polls + 1 ELSE polls
            /\ UNCHANGED <<ret, held>>
    /\ UNCHANGED <<file, nodeVars, registry, scan_idx, wallet_height,
                   block_height, path, log, calls, entry, pureVars>>

-----------------------------------------------------------------------------
(* deregister_all_scans, lines 80-89 *)

(* node_scans, lines 80-82: the scan ids of the registry's scans *)
node_scans(r) == <<r.oracle_token_scan>>

(* The caller calls deregister_all_scans(self) on the registry it holds *)
CallDeregister ==
    /\ pc = "idle"
    /\ calls < MaxCalls
    /\ held # NoRegistry
    /\ calls' = calls + 1
    /\ pc' = "deregister"
    /\ registry' = held
    /\ held' = NoRegistry
    /\ scan_idx' = 1
    /\ path' = "deregister"
    /\ log' = <<>>
    /\ entry' = CallEntry(file, nodeScans, path, log, ret)
    /\ UNCHANGED <<file, nodeVars, wallet_height, block_height, polls, ret,
                   pureVars>>

(* A faulty variant: the failure is dropped and the loop goes on *)
on_deregister_error_continue(id) ==
    /\ scan_idx' = scan_idx + 1
    /\ UNCHANGED <<pc, ret, held>>

(* What the loop does when deregister_scan fails: `?` returns the error *)
on_deregister_error(id) ==
    /\ Return("deregister", Err("NodeApi"))
    /\ UNCHANGED scan_idx

(* One turn of the loop of lines 85-87, or the Ok(()) of line 88 *)
deregister_scan ==
    /\ pc = "deregister"
    /\ IF scan_idx > Len(node_scans(registry))
       THEN /\ Return("deregister", Ok(NoRegistry))
            /\ UNCHANGED <<nodeScans, scan_idx, log>>
       ELSE LET id == node_scans(registry)[scan_idx] IN
            \E success \in BOOLEAN :
              /\ log' = Append(log, LogEntry("deregister_scan", success, id))
              /\ IF success
                 THEN /\ nodeScans' = nodeScans \ {id}
                      /\ scan_idx' = scan_idx + 1
                      /\ UNCHANGED <<pc, ret, held>>
                 ELSE /\ on_deregister_error(id)
                      /\ UNCHANGED nodeScans
    /\ UNCHANGED <<file, nextScanId, walletHeight, chainHeight, registry,
                   wallet_height, block_height, path, polls, calls, entry,
                   pureVars>>

-----------------------------------------------------------------------------
(* The node, on its own: the chain grows, the wallet scan catches up. *)

NodeNewBlock ==
    /\ chainHeight < MaxHeight
    /\ chainHeight' = chainHeight + 1
    /\ UNCHANGED <<file, nodeScans, nextScanId, walletHeight, pc, localVars,
                   log, ret, held, calls, entry, pureVars>>

NodeScanBlock ==
    /\ walletHeight < chainHeight
    /\ walletHeight' = walletHeight + 1
    /\ UNCHANGED <<file, nodeScans, nextScanId, chainHeight, pc, localVars,
                   log, ret, held, calls, entry, pureVars>>

(* The steps of the program itself *)
ProgramStep ==
    \/ ensure_read_file
    \/ register_scan
    \/ save_to_json_file
    \/ rescan_from_height
    \/ wait_wallet_status
    \/ wait_block_height
    \/ wait_compare
    \/ loop_wallet_status
    \/ loop_block_height
    \/ loop_compare
    \/ deregister_scan

Init ==
    RegistryInit /\ JsonAtRest /\ ContractAtRest /\ BootAtRest /\ MainAtRest
    /\ SourceAtRest

Next ==
    \/ CallEnsure
    \/ CallDeregister
    \/ ProgramStep
    \/ NodeNewBlock
    \/ NodeScanBlock

Spec == Init /\ [][Next]_vars

(* The program is sequential and runs on: a step it can take, it takes.    *)
(* Nothing is assumed of the caller or of the node.                        *)
LiveSpec == Init /\ [][Next]_vars /\ WF_vars(ProgramStep)

-----------------------------------------------------------------------------
(* JsonSpec: save_to_json_str and load_from_json_str as functions.         *)
(* An input is a registry, saved and then loaded (tests::json_roundtrip),  *)
(* or a document, loaded (tests::parse_legacy_json).                       *)

JsonKeys == {OracleTokenScanKey} \cup LegacyKeys

JsonValues ==
    { JStr(<<"7">>), JStr(<<"1", "0">>), JStr(<<"+", "3">>), JStr(<<"x">>),
      JStr(<<>>), JOther }

JsonMembers == {Member(k, v) : k \in JsonKeys, v \in JsonValues}

JsonDocs == {Malformed} \cup {Object(ms) : ms \in SeqsUpTo(JsonMembers, MaxDocLen)}

JsonInit ==
    /\ jsonIn \in
         {[fn |-> "roundtrip", reg |-> NodeScanRegistry(n), doc |-> Malformed] :
            n \in 0..MaxScanId}
         \cup {[fn |-> "load", reg |-> NoRegistry, doc |-> d] : d \in JsonDocs}
    /\ jsonOut = JsonIdle
    /\ RegistryAtRest
    /\ ContractAtRest
    /\ BootAtRest
    /\ MainAtRest
    /\ SourceAtRest

(* registry.save_to_json_str() *)
JsonSave ==
    /\ jsonIn.fn = "roundtrip"
    /\ jsonOut.stage = "none"
    /\ jsonOut' = [stage |-> "saved", doc |-> save_to_json_str(jsonIn.reg),
                   res |-> Err("none")]
    /\ UNCHANGED <<jsonIn, registryVars, contractVars, boot, run, dps>>

(* NodeScanRegistry::load_from_json_str(&json_str) on the text just saved *)
JsonLoadSaved ==
    /\ jsonOut.stage = "saved"
    /\ jsonOut' = [stage |-> "loaded", doc |-> jsonOut.doc,
                   res |-> load_from_json_str(jsonOut.doc)]
    /\ UNCHANGED <<jsonIn, registryVars, contractVars, boot, run, dps>>

(* NodeScanRegistry::load_from_json_str(json_str) on a given document *)
JsonLoad ==
    /\ jsonIn.fn = "load"
    /\ jsonOut.stage = "none"
    /\ jsonOut' = [stage |-> "loaded", doc |-> jsonIn.doc,
                   res |-> load_from_json_str(jsonIn.doc)]
    /\ UNCHANGED <<jsonIn, registryVars, contractVars, boot, run, dps>>

JsonNext == JsonSave \/ JsonLoadSaved \/ JsonLoad

JsonSpec == JsonInit /\ [][JsonNext]_vars

-----------------------------------------------------------------------------
(* ContractSpec: create, load and from_ergo_tree of the two contracts as   *)
(* functions of bounded parameters and scripts; a created contract's       *)
(* script is verified again with from_ergo_tree(created.ergo_tree(), ..).  *)

Trees == {UnparsedErgoTree} \cup {ErgoTree(cs) : cs \in SeqsUpTo(Constants, MaxConstants)}

Indexes == 0..MaxConstants

P2SAddresses == {BadP2S} \cup {P2S(t) : t \in Trees}

ContractInput(c, f, p, t) == [contract |-> c, fn |-> f, params |-> p, tree |-> t]

(* create and load take parameters; the script is the one of p2s *)
OracleParametersInput(in) ==
    \E f \in {"create", "load"}, a \in P2SAddresses, i \in Indexes, t \in TokenIds :
      in = ContractInput("oracle", f, OracleContractParameters(a, i, t), a.tree)

PoolParametersInput(in) ==
    \E f \in {"create", "load"}, a \in P2SAddresses,
       ri \in Indexes, rt \in TokenIds, ui \in Indexes, ut \in TokenIds :
      in = ContractInput("pool", f, PoolContractParameters(a, ri, rt, ui, ut),
                         a.tree)

(* from_ergo_tree takes a script and parameters, and does not read p2s *)
OracleScriptInput(in) ==
    \E tr \in Trees, i \in Indexes, t \in TokenIds :
      in = ContractInput("oracle", "from_ergo_tree",
                         OracleContractParameters(BadP2S, i, t), tr)

PoolScriptInput(in) ==
    \E tr \in Trees, ri \in Indexes, rt \in TokenIds, ui \in Indexes, ut \in TokenIds :
      in = ContractInput("pool", "from_ergo_tree",
                         PoolContractParameters(BadP2S, ri, rt, ui, ut), tr)

ContractInit ==
    /\ \/ OracleParametersInput(cIn)
       \/ PoolParametersInput(cIn)
       \/ OracleScriptInput(cIn)
       \/ PoolScriptInput(cIn)
    /\ cOut = [stage |-> "none", res |-> OracleErr("none"),
               check |-> OracleErr("none")]
    /\ RegistryAtRest
    /\ JsonAtRest
    /\ BootAtRest
    /\ MainAtRest
    /\ SourceAtRest

Returned(contract, fn, res) ==
    /\ cIn.contract = contract
    /\ cIn.fn = fn
    /\ cOut.stage = "none"
    /\ cOut' = [stage |-> "returned", res |-> res, check |-> cOut.check]
    /\ UNCHANGED <<cIn, registryVars, jsonVars, boot, run, dps>>

OracleCreate == Returned("oracle", "create", OracleContract_create(cIn.params))

OracleLoad == Returned("oracle", "load", OracleContract_load(cIn.params))

OracleFromErgoTree ==
    Returned("oracle", "from_ergo_tree",
             OracleContract_from_ergo_tree(cIn.tree, cIn.params))

PoolCreate == Returned("pool", "create", PoolContract_create(cIn.params))

PoolLoad == Returned("pool", "load", PoolContract_load(cIn.params))

PoolFromErgoTree ==
    Returned("pool", "from_ergo_tree",
             PoolContract_from_ergo_tree(cIn.tree, cIn.params))

(* from_ergo_tree(created.ergo_tree(), params) on a contract create made *)
OracleVerifyCreated ==
    /\ cIn.contract = "oracle"
    /\ cIn.fn = "create"
    /\ cOut.stage = "returned"
    /\ cOut.res.outcome = "Ok"
    /\ cOut' = [cOut EXCEPT
                  !.stage = "verified",
                  !.check = OracleContract_from_ergo_tree(
                              cOut.res.contract.ergo_tree, cIn.params)]
    /\ UNCHANGED <<cIn, registryVars, jsonVars, boot, run, dps>>

PoolVerifyCreated ==
    /\ cIn.contract = "pool"
    /\ cIn.fn = "create"
    /\ cOut.stage = "returned"
    /\ cOut.res.outcome = "Ok"
    /\ cOut' = [cOut EXCEPT
                  !.stage = "verified",
                  !.check = PoolContract_from_ergo_tree(
                              cOut.res.contract.ergo_tree, cIn.params)]
    /\ UNCHANGED <<cIn, registryVars, jsonVars, boot, run, dps>>

ContractNext ==
    \/ OracleCreate
    \/ OracleLoad
    \/ OracleFromErgoTree
    \/ OracleVerifyCreated
    \/ PoolCreate
    \/ PoolLoad
    \/ PoolFromErgoTree
    \/ PoolVerifyCreated

ContractSpec == ContractInit /\ [][ContractNext]_vars

-----------------------------------------------------------------------------
(* BootstrapSpec: test_bootstrap_and_run.  The chain holds up to           *)
(* MaxFunding funding blocks; the submitter is ChainSubmitTx, which always *)
(* adds the block, or a node, which may reject the transaction; the signer *)
(* may refuse to sign.                                                     *)

Submitters == {"chain_sim", "node"}

BootstrapInit ==
    /\ \E f \in 0..MaxFunding, sub \in Submitters,
          pt \in PoolTemplates, ot \in OracleTemplates :
         boot = [BootIdle EXCEPT !.pc = "start", !.submitter = sub,
                                 !.config = BootstrapConfig(pt, ot),
                                 !.chain = FundedChain(f), !.start = f]
    /\ RegistryAtRest
    /\ JsonAtRest
    /\ ContractAtRest
    /\ MainAtRest
    /\ SourceAtRest

BootLogged(b, op, ok) ==
    [b EXCEPT !.log = Append(@, BootLogEntry(op, b.step, ok))]

(* the run ends with an error that names the step and the cause *)
BootFailed(b, cause) ==
    [b EXCEPT !.pc = "failed",
              !.result = [NoBootResult EXCEPT !.outcome = "Err", !.step = b.step,
                                              !.cause = cause]]

(* the next step, or the configuration once every step is done *)
BootAdvance(b) ==
    IF b.step = Len(BootstrapSteps)
    THEN [b EXCEPT !.pc = "done",
                   !.result = [NoBootResult EXCEPT
                                 !.outcome = "Ok", !.tokens = b.tokens,
                                 !.pool_contract = b.pool_contract,
                                 !.oracle_contract = b.oracle_contract]]
    ELSE [b EXCEPT !.pc = "build", !.step = @ + 1]

(* the parameters of a contract with the ids minted so far *)
PoolParametersMinted(b) ==
    [b.config.pool_contract_parameters EXCEPT
       !.refresh_nft_token_id = b.tokens["refresh_nft"],
       !.update_nft_token_id = b.tokens["update_nft"]]

OracleParametersMinted(b) ==
    [b.config.oracle_contract_parameters EXCEPT
       !.pool_nft_token_id = b.tokens["pool_nft"]]

(* the two outputs of a step's transaction: the object and the change *)
StepOutputs(b, token, tree) ==
    {ErgoBox(b.next_box, b.step, token, tree),
     ErgoBox(b.next_box + 1, b.step, NoTokenId, P2PkScript)}

(* bootstrap(), lines 39-66: the wallet's unspent boxes fund the first step *)
BootstrapRun ==
    /\ boot.pc = "start"
    /\ IF get_unspent_boxes(boot.chain) = {}
       THEN boot' = BootFailed([boot EXCEPT !.step = 1], "funds")
       ELSE \E b \in get_unspent_boxes(boot.chain) :
              boot' = [boot EXCEPT !.pc = "build", !.step = 1,
                                   !.input = b.box_id,
                                   !.next_box = boot.chain.height + 1]
    /\ UNCHANGED <<registryVars, jsonVars, contractVars, run, dps>>

(* one transaction is built: a mint, or a box guarded by a created contract *)
BuildStep ==
    /\ boot.pc = "build"
    /\ LET st == BootstrapSteps[boot.step] IN
       IF st.kind = "mint"
       THEN boot' = [BootLogged(boot, "build", TRUE) EXCEPT
                       !.pc = "sign",
                       !.tx = Transaction(boot.step, boot.input, boot.input,
                                          StepOutputs(boot, boot.input, P2PkScript))]
       ELSE IF st.contract = "pool"
       THEN LET r == PoolContract_create(PoolParametersMinted(boot)) IN
            IF r.outcome # "Ok"
            THEN boot' = BootFailed(BootLogged(boot, "build", FALSE), "contract")
            ELSE boot' = [BootLogged(boot, "build", TRUE) EXCEPT
                            !.pc = "sign",
                            !.pool_contract = r.contract,
                            !.tx = Transaction(boot.step, boot.input, NoTokenId,
                                     StepOutputs(boot, NoTokenId,
                                                 r.contract.ergo_tree))]
       ELSE LET r == OracleContract_create(OracleParametersMinted(boot)) IN
            IF r.outcome # "Ok"
            THEN boot' = BootFailed(BootLogged(boot, "build", FALSE), "contract")
            ELSE boot' = [BootLogged(boot, "build", TRUE) EXCEPT
                            !.pc = "sign",
                            !.oracle_contract = r.contract,
                            !.tx = Transaction(boot.step, boot.input, NoTokenId,
                                     StepOutputs(boot, NoTokenId,
                                                 r.contract.ergo_tree))]
    /\ UNCHANGED <<registryVars, jsonVars, contractVars, run, dps>>

(* tx_signer: a signed transaction or a signing failure *)
SignStep ==
    /\ boot.pc = "sign"
    /\ \E signed \in BOOLEAN :
         boot' = IF signed
                 THEN [BootLogged(boot, "sign", TRUE) EXCEPT !.pc = "submit"]
                 ELSE BootFailed(BootLogged(boot, "sign", FALSE), "sign")
    /\ UNCHANGED <<registryVars, jsonVars, contractVars, run, dps>>

(* submit_tx.submit_transaction(&tx): the outputs become the next inputs *)
SubmitStep ==
    /\ boot.pc = "submit"
    /\ \E accepted \in IF boot.submitter = "chain_sim" THEN {TRUE} ELSE BOOLEAN :
         IF ~accepted
         THEN boot' = BootFailed(BootLogged(boot, "submit", FALSE), "submit")
         ELSE LET r == submit_transaction(boot.chain, boot.tx)
                  st == BootstrapSteps[boot.step]
                  b == [BootLogged(boot, "submit", r.ok) EXCEPT
                          !.chain = r.chain,
                          !.input = boot.next_box + 1,
                          !.next_box = boot.next_box + 2,
                          !.tokens = IF st.kind = "mint"
                                     THEN [@ EXCEPT ![st.token] = boot.tx.minted]
                                     ELSE @] IN
              boot' = IF st.kind = "box" THEN [b EXCEPT !.pc = "verify"]
                      ELSE BootAdvance(b)
    /\ UNCHANGED <<registryVars, jsonVars, contractVars, run, dps>>

(* the script of the box the step created is verified against the ids minted *)
VerifyStep ==
    /\ boot.pc = "verify"
    /\ LET st == BootstrapSteps[boot.step]
           made == {b \in boot.chain.unspent_boxes :
                      b.step = boot.step /\ b.ergo_tree # P2PkScript} IN
       IF made = {} THEN boot' = BootFailed(boot, "verify")
       ELSE \E b \in made :
              LET outcome ==
                    IF st.contract = "pool"
                    THEN PoolContract_from_ergo_tree(
                           b.ergo_tree, PoolParametersMinted(boot)).outcome
                    ELSE OracleContract_from_ergo_tree(
                           b.ergo_tree, OracleParametersMinted(boot)).outcome IN
              boot' = IF outcome = "Ok" THEN BootAdvance(boot)
                      ELSE BootFailed(boot, "verify")
    /\ UNCHANGED <<registryVars, jsonVars, contractVars, run, dps>>

BootstrapNext ==
    \/ BootstrapRun
    \/ BuildStep
    \/ SignStep
    \/ SubmitStep
    \/ VerifyStep

BootstrapSpec == BootstrapInit /\ [][BootstrapNext]_vars

-----------------------------------------------------------------------------
(* MainSpec: Command::Run, lines 186-206, from the first turn of the loop  *)
(* (the wallet is unlocked and OraclePool::new() returned).  The calls     *)
(* main_loop_iteration makes answer as their signatures allow.             *)

MainInit ==
    /\ \E read_only \in BOOLEAN :
         run = [MainIdle EXCEPT !.pc = "current_block_height",
                                !.read_only = read_only, !.iteration = 1]
    /\ RegistryAtRest
    /\ JsonAtRest
    /\ ContractAtRest
    /\ BootAtRest
    /\ SourceAtRest

RunLogged(r, op, ok) == [r EXCEPT !.log = Append(@, CallLog(op, ok))]

(* main_loop_iteration returned Err: lines 199-202 end the process *)
IterationErr(r) == [r EXCEPT !.pc = "exited", !.exit = SOFTWARE]

(* main_loop_iteration returned Ok(()), line 312 *)
IterationOk(r) == [r EXCEPT !.pc = "sleep"]

(* line 294: let height = current_block_height()? *)
main_current_block_height ==
    /\ run.pc = "current_block_height"
    /\ \/ run' = IterationErr(RunLogged(run, "current_block_height", FALSE))
       \/ \E h \in 0..MaxHeight :
            run' = [RunLogged(run, "current_block_height", TRUE) EXCEPT
                      !.height = h, !.pc = "get_live_epoch_state"]
    /\ UNCHANGED <<registryVars, jsonVars, contractVars, boot, dps>>

(* lines 296-299: an error of get_live_epoch_state is NeedsBootstrap *)
main_get_live_epoch_state ==
    /\ run.pc = "get_live_epoch_state"
    /\ \E ok \in BOOLEAN :
         run' = [RunLogged(run, "get_live_epoch_state", ok) EXCEPT
                   !.pool_state = IF ok THEN "LiveEpoch" ELSE "NeedsBootstrap",
                   !.pc = "process"]
    /\ UNCHANGED <<registryVars, jsonVars, contractVars, boot, dps>>

(* line 300: process(pool_state, height)? is Err, Ok(None) or Ok(Some(cmd)) *)
main_process ==
    /\ run.pc = "process"
    /\ \/ run' = IterationErr(RunLogged(run, "process", FALSE))
       \/ run' = IterationOk(RunLogged(run, "process", TRUE))
       \/ \E cmd \in PoolCommands :
            run' = [RunLogged(run, "process", TRUE) EXCEPT
                      !.cmd = cmd, !.pc = "get_change_address_from_node"]
    /\ UNCHANGED <<registryVars, jsonVars, contractVars, boot, dps>>

(* line 306: the last argument of build_action, get_change_address_from_node()? *)
main_get_change_address_from_node ==
    /\ run.pc = "get_change_address_from_node"
    /\ \E ok \in BOOLEAN :
         run' = IF ok
                THEN [RunLogged(run, "get_change_address_from_node", TRUE)
                        EXCEPT !.pc = "build_action"]
                ELSE IterationErr(
                       RunLogged(run, "get_change_address_from_node", FALSE))
    /\ UNCHANGED <<registryVars, jsonVars, contractVars, boot, dps>>

(* lines 301-307: let action = build_action(cmd, op, &wallet, height as u32, ..)? *)
main_build_action ==
    /\ run.pc = "build_action"
    /\ \E ok \in BOOLEAN :
         run' = IF ok
                THEN [RunLogged(run, "build_action", TRUE) EXCEPT
                        !.action = PoolAction(run.cmd, run.height),
                        !.pc = "read_only"]
                ELSE IterationErr(RunLogged(run, "build_action", FALSE))
    /\ UNCHANGED <<registryVars, jsonVars, contractVars, boot, dps>>

(* lines 308-310: if !read_only { execute_action(action)?; } *)
main_execute_action ==
    /\ run.pc = "read_only"
    /\ IF should_execute(run.read_only)
       THEN \E ok \in BOOLEAN :
              LET r == [RunLogged(run, "execute_action", ok) EXCEPT
                          !.executed = Append(@, run.action)] IN
              run' = IF ok THEN IterationOk(r) ELSE IterationErr(r)
       ELSE run' = IterationOk(run)
    /\ UNCHANGED <<registryVars, jsonVars, contractVars, boot, dps>>

(* lines 203-205: thread::sleep, then the loop calls the next iteration *)
main_loop_restart ==
    /\ run.pc = "sleep"
    /\ run.iteration < MaxIterations
    /\ run' = [run EXCEPT !.pc = "current_block_height", !.iteration = @ + 1,
                          !.height = NoBlockHeight, !.pool_state = "none",
                          !.cmd = NoCommand, !.action = NoAction, !.log = <<>>]
    /\ UNCHANGED <<registryVars, jsonVars, contractVars, boot, dps>>

MainNext ==
    \/ main_current_block_height
    \/ main_get_live_epoch_state
    \/ main_process
    \/ main_get_change_address_from_node
    \/ main_build_action
    \/ main_execute_action
    \/ main_loop_restart

MainSpec == MainInit /\ [][MainNext]_vars

-----------------------------------------------------------------------------
(* SourceSpec: RuntimeDataPointSource::new applied to two options, then    *)
(* get_datapoint on the source it returned.                                *)

Options(S) == {None} \cup {Some(v) : v \in S}

SourceInit ==
    /\ \E p \in Options(PredefinedDataPointSources), c \in Options(ShellCommands) :
         dps = [SourceIdle EXCEPT !.pc = "new", !.predef = p, !.custom = c]
    /\ RegistryAtRest
    /\ JsonAtRest
    /\ ContractAtRest
    /\ BootAtRest
    /\ MainAtRest

(* RuntimeDataPointSource::new(predef, custom) *)
SourceNew ==
    /\ dps.pc = "new"
    /\ LET r == RuntimeDataPointSource_new(dps.predef, dps.custom) IN
       dps' = [dps EXCEPT !.pc = IF r.ok THEN "constructed" ELSE "failed",
                          !.new_ok = r.ok, !.source = r.val]
    /\ UNCHANGED <<registryVars, jsonVars, contractVars, boot, run>>

(* source.get_datapoint(): the call of the selected variant, which answers *)
(* with a datapoint or an error that get_datapoint returns as it is        *)
SourceGetDatapoint ==
    /\ dps.pc = "constructed"
    /\ Len(dps.calls) < MaxFetches
    /\ \E r \in DatapointResults :
         dps' = [dps EXCEPT
                   !.calls = Append(@, get_datapoint_dispatch(dps.source)),
                   !.results = Append(@, r)]
    /\ UNCHANGED <<registryVars, jsonVars, contractVars, boot, run>>

SourceNext == SourceNew \/ SourceGetDatapoint

SourceSpec == SourceInit /\ [][SourceNext]_vars

-----------------------------------------------------------------------------
(* Properties of the scan registry *)

WaitPcs == {"wait_wallet", "wait_block", "wait_compare",
            "loop_wallet", "loop_block", "loop_compare"}

(* The running or last call is ensure_node_registered_scans, past the read *)
EnsurePastRead == path \in {"load", "register"}

EnsureReturned == EnsurePastRead /\ pc = "idle"

AllOk(l) == \A i \in DOMAIN l : l[i].ok

(* Scan ids a file of the model can hold *)
HandleIds == 0..(FirstNodeScanId + PersistedScanId + MaxCalls)

(* doc is an object with exactly one member under the recognized key,      *)
(* holding the decimal text of scan id n                                   *)
HoldsHandle(doc, n) ==
    /\ doc.wf
    /\ Cardinality({i \in DOMAIN doc.members :
                      doc.members[i].key = OracleTokenScanKey}) = 1
    /\ \E i \in DOMAIN doc.members :
         doc.members[i] = Member(OracleTokenScanKey, JStr(scan_id_to_string(n)))

(* C1: when the scans file is readable and parses, the call takes the load *)
(* path, holds (and on Ok returns) exactly the registry the file records,  *)
(* and performs no register_scan, no rescan_from_height and no write: the  *)
(* file and the node's scan set stay as they were when the call began.     *)
C1_LoadPathFrame ==
    \A n \in HandleIds :
      (EnsurePastRead /\ entry.file.kind = "text" /\ HoldsHandle(entry.file.text, n))
      => /\ path = "load"
         /\ log = <<>>
         /\ file = entry.file
         /\ nodeScans = entry.nodeScans
         /\ registry = NodeScanRegistry(n)
         /\ pc = "idle" => /\ ret.op = "ensure"
                           /\ ret.ok => ret.val = NodeScanRegistry(n)
                           /\ ~ret.ok => ret.err = "NodeApi"

C1_Witness ==
    /\ EnsureReturned
    /\ path = "load"
    /\ ret.ok
    /\ ret.val = NodeScanRegistry(PersistedScanId)
    /\ Len(entry.file.text.members) = 2

(* C2: when the file cannot be read, the call performs register_scan, then *)
(* the write of the mapping just registered, then rescan_from_height(0),   *)
(* in this order; an operation is attempted only if every earlier one      *)
(* succeeded, the call returns early only on a failed operation, and the   *)
(* wait starts (and Ok is returned) only after all three succeeded.        *)
RegisterOps == <<"register_scan", "write", "rescan_from_height">>

C2_RegisterOrder ==
    (EnsurePastRead /\ entry.file.kind # "text")
    => /\ path = "register"
       /\ Len(log) <= 3
       /\ \A i \in DOMAIN log : log[i].op = RegisterOps[i]
       /\ \A i \in DOMAIN log : i < Len(log) => log[i].ok
       /\ Len(log) >= 2 => log[2].arg = log[1].arg
       /\ (Len(log) >= 2 /\ log[2].ok)
            => file = FileText(save_to_json_str(NodeScanRegistry(log[1].arg)))
       /\ Len(log) = 3 => log[3].arg = 0
       /\ pc = "register" <=> log = <<>>
       /\ pc = "save" <=> (Len(log) = 1 /\ AllOk(log))
       /\ pc = "rescan" <=> (Len(log) = 2 /\ AllOk(log))
       /\ pc \in WaitPcs => (Len(log) = 3 /\ AllOk(log))
       /\ pc = "idle" => \/ Len(log) = 3 /\ AllOk(log)
                         \/ log # <<>> /\ ~log[Len(log)].ok /\ ~ret.ok
       /\ (pc = "idle" /\ ret.ok) => (Len(log) = 3 /\ AllOk(log))

C2_Witness ==
    /\ path = "register"
    /\ entry.file.kind = "unreadable"
    /\ pc = "wait_wallet"
    /\ Len(log) = 3
    /\ AllOk(log)

(* C3 as claimed: whenever ensure_node_registered_scans returns Ok, the    *)
(* node's wallet scan height equals the chain's block height at the moment *)
(* of the return.                                                          *)
C3_SyncedAtReturn ==
    (ret.op = "ensure" /\ ret.ok) => ret.wallet = ret.chain

(* C3, amended: whenever ensure_node_registered_scans returns Ok, the      *)
(* wallet height and the block height read by the two RPC calls of its     *)
(* last poll are equal (the node may have moved on since the reads).       *)
C3_LastPollEqual ==
    (EnsureReturned /\ ret.ok)
    => /\ wallet_height # NoHeight
       /\ wallet_height = block_height

C3_Witness ==
    /\ EnsureReturned
    /\ ret.ok
    /\ polls >= 1
    /\ ret.wallet # ret.chain

(* C4: in the wait, if no RPC call ever fails and from some point on the   *)
(* node's wallet height equals its block height, the call eventually       *)
(* returns Ok; if the two heights are never equal and no RPC call fails,   *)
(* the wait never returns.  (Under LiveSpec: the program keeps stepping.)  *)
InWait == pc \in WaitPcs

NodeSynced == walletHeight = chainHeight

RpcFailed == ret.op = "ensure" /\ ret.err = "NodeApi"

C4_WaitLiveness ==
    /\ ([]~RpcFailed /\ <>[]NodeSynced)
         => [](InWait => <>(pc = "idle" /\ ret.op = "ensure" /\ ret.ok))
    /\ ([]~RpcFailed /\ []~NodeSynced) => [](InWait => []InWait)

C4_Witness ==
    /\ EnsureReturned
    /\ ret.ok
    /\ polls = MaxPolls
    /\ NodeSynced

-----------------------------------------------------------------------------
(* Properties of the persistence format (JsonSpec) *)

(* C6: for every registry r, load_from_json_str(save_to_json_str(r))       *)
(* succeeds and returns a registry equal to r.                             *)
C6_JsonRoundtrip ==
    (jsonIn.fn = "roundtrip" /\ jsonOut.stage = "loaded")
    => (jsonOut.res.ok /\ jsonOut.res.val = jsonIn.reg)

C6_Witness ==
    /\ jsonIn.fn = "roundtrip"
    /\ jsonOut.stage = "loaded"
    /\ jsonIn.reg.oracle_token_scan >= 10
    /\ jsonOut.res.val = jsonIn.reg

(* C7: loading a mapping that holds a handle under "All Datapoints Scan"   *)
(* plus any members under unrecognized role keys succeeds, and the         *)
(* registry holds exactly the handle stored under the recognized key.      *)
C7_LegacyKeysIgnored ==
    \A n \in 0..MaxScanId :
      (jsonIn.fn = "load" /\ jsonOut.stage = "loaded" /\ HoldsHandle(jsonIn.doc, n))
      => jsonOut.res = Ok(NodeScanRegistry(n))

C7_Witness ==
    /\ jsonIn.fn = "load"
    /\ jsonOut.stage = "loaded"
    /\ HoldsHandle(jsonIn.doc, 10)
    /\ Len(jsonIn.doc.members) = 2
    /\ jsonIn.doc.members[1].key \in LegacyKeys
    /\ jsonOut.res = Ok(NodeScanRegistry(10))

(* C19: if register_scan succeeds and the write of the mapping that       *)
(* follows fails, ensure_node_registered_scans returns an Io error, with   *)
(* no rescan requested, no wait and no deregister_scan: the node keeps the *)
(* new scan handle, which neither the file nor the caller records.         *)
C19_OrphanedHandle ==
    (path = "register" /\ Len(log) >= 2 /\ log[1].ok /\ ~log[2].ok)
    => /\ log[1].op = "register_scan"
       /\ log[2].op = "write"
       /\ Len(log) = 2
       /\ pc = "idle"
       /\ ret.op = "ensure"
       /\ ~ret.ok
       /\ ret.err = "Io"
       /\ wallet_height = NoHeight
       /\ block_height = NoHeight
       /\ polls = 0
       /\ log[1].arg \in nodeScans
       /\ nodeScans = entry.nodeScans \cup {log[1].arg}
       /\ file.kind = "text" => ~HoldsHandle(file.text, log[1].arg)
       /\ held.oracle_token_scan # log[1].arg

C19_Witness ==
    /\ path = "register"
    /\ pc = "idle"
    /\ Len(log) = 2
    /\ log[1] = LogEntry("register_scan", TRUE, FirstNodeScanId)
    /\ ~log[2].ok
    /\ ret.err = "Io"
    /\ FirstNodeScanId \in nodeScans
    /\ file = FileText(Malformed)

(* the call reached wait_for_node_rescan: the file was loaded, or the      *)
(* registration, the write and the rescan request all succeeded            *)
EnteredWait ==
    \/ path = "load" /\ registry # NoRegistry
    \/ path = "register" /\ Len(log) = 3 /\ AllOk(log)

RpcPcs == {"wait_wallet", "wait_block", "loop_wallet", "loop_block"}

AfterRpc(p) ==
    CASE p = "wait_wallet" -> "wait_block"
      [] p = "wait_block" -> "wait_compare"
      [] p = "loop_wallet" -> "loop_block"
      [] p = "loop_block" -> "loop_compare"
      [] OTHER -> "idle"

(* a step of the program inside the wait *)
WaitStep ==
    (pc \in WaitPcs /\ pc' # pc)
    => \/ pc \in RpcPcs /\ pc' = AfterRpc(pc)
       \/ pc \in RpcPcs /\ pc' = "idle" /\ ~ret'.ok /\ ret'.err = "NodeApi"
       \/ /\ pc \notin RpcPcs
          /\ wallet_height = block_height
          /\ pc' = "idle"
          /\ ret'.ok
       \/ /\ pc \notin RpcPcs
          /\ wallet_height # block_height
          /\ pc' = "loop_wallet"

(* C20: wait_for_node_rescan ends in exactly two ways: Ok after a poll in  *)
(* which the wallet height read equals the block height read, or the error *)
(* of the first wallet_status / current_block_height call that fails,      *)
(* returned at once; a poll that finds the heights different is always     *)
(* followed by another poll, however many came before.                     *)
C20_WaitEnds ==
    /\ []((EnsureReturned /\ EnteredWait)
            => \/ ret.ok /\ wallet_height # NoHeight /\ wallet_height = block_height
               \/ ~ret.ok /\ ret.err = "NodeApi")
    /\ [][WaitStep]_vars

C20_Witness ==
    /\ EnsureReturned
    /\ EnteredWait
    /\ ~ret.ok
    /\ ret.err = "NodeApi"
    /\ polls = MaxPolls
    /\ wallet_height # block_height

(* The call began with a file that reads as a text and does not parse *)
EntryMalformed ==
    entry.file.kind = "text" /\ ~load_from_json_str(entry.file.text).ok

(* C21: when the scans file is readable but malformed, the call returns    *)
(* the Parse error (not Io), with no register_scan, no rescan_from_height  *)
(* and no height poll, leaves the file and the node's scans as they were,  *)
(* and does not fall back to registration.                                 *)
C21_MalformedParse ==
    (EnsurePastRead /\ EntryMalformed)
    => /\ path = "load"
       /\ pc = "idle"
       /\ ret.op = "ensure"
       /\ ~ret.ok
       /\ ret.err = "Parse"
       /\ ret.err # "Io"
       /\ log = <<>>
       /\ wallet_height = NoHeight
       /\ block_height = NoHeight
       /\ polls = 0
       /\ registry = NoRegistry
       /\ file = entry.file
       /\ nodeScans = entry.nodeScans
       /\ nextScanId = FirstNodeScanId + Cardinality(nodeScans \ {PersistedScanId})

C21_Witness ==
    /\ EnsureReturned
    /\ entry.file = FileText(Malformed)
    /\ ret.err = "Parse"
    /\ log = <<>>
    /\ file = FileText(Malformed)

(* The scan handles the call before this one released *)
ReleasedBefore ==
    {entry.log[i].arg : i \in {j \in DOMAIN entry.log :
                                 /\ entry.log[j].op = "deregister_scan"
                                 /\ entry.log[j].ok}}

(* The call before this one was a deregister_all_scans that returned Ok *)
AfterDeregisterOk ==
    /\ entry.path = "deregister"
    /\ entry.ret.op = "deregister"
    /\ entry.ret.ok

C23_ReadFailureRegisters ==
    (EnsurePastRead /\ entry.file.kind \in {"absent", "unreadable"})
    => /\ NodeScanRegistry_load(entry.file) = Err("Io")
       /\ path = "register"
       /\ pc = "idle" => log # <<>>
       /\ log # <<>> => log[1].op = "register_scan"
       /\ (log # <<>> /\ log[1].ok)
            => /\ log[1].arg \notin entry.nodeScans
               /\ log[1].arg \in nodeScans
               /\ pc = "save" \/ (Len(log) >= 2 /\ log[2].op = "write")
       /\ (Len(log) >= 2 /\ log[2].ok)
            => /\ file = FileText(save_to_json_str(NodeScanRegistry(log[1].arg)))
               /\ file # entry.file
       /\ (pc = "idle" /\ ~ret.ok /\ ret.err = "Io")
            => /\ Len(log) = 2
               /\ log[2].op = "write"
               /\ ~log[2].ok

C23_Witness ==
    /\ EnsureReturned
    /\ entry.file = FileUnreadable
    /\ ret.ok
    /\ Len(log) = 3
    /\ file = FileText(save_to_json_str(NodeScanRegistry(FirstNodeScanId)))
    /\ NodeScanRegistry_load(entry.file).err = "Io"

(* rescan_from_height appears in a call's operations only as the third,    *)
(* after a register_scan and a write of the same call that succeeded       *)
RescanOnlyAfterRegister(p, l) ==
    \A i \in DOMAIN l :
      l[i].op = "rescan_from_height"
      => /\ p = "register"
         /\ i = 3
         /\ l[i].arg = 0
         /\ l[1] = LogEntry("register_scan", TRUE, l[1].arg)
         /\ l[2] = LogEntry("write", TRUE, l[1].arg)

(* The rescan request of this call failed, after the mapping was written *)
RescanFailed ==
    /\ path = "register"
    /\ Len(log) = 3
    /\ log[3].op = "rescan_from_height"
    /\ ~log[3].ok

(* An ensure_node_registered_scans call that loads the file: no operation  *)
(* of the register path, the handle of the file, the wait or its outcome   *)
LoadPathCall ==
    /\ path \in {"load", "register"} => path = "load"
    /\ path = "load"
         => /\ log = <<>>
            /\ file = entry.file
            /\ HoldsHandle(file.text, registry.oracle_token_scan)
            /\ pc \in WaitPcs \cup {"idle"}
    /\ \A i \in DOMAIN log : log[i].op # "rescan_from_height"

(* C24: rescan_from_height(0) is requested only inside a call that         *)
(* registered scans; when the request fails, the mapping being written,    *)
(* the call returns an error, and every later call takes the load path,    *)
(* goes straight to the height wait and never requests the rescan again.   *)
C24_RescanOnlyOnRegister ==
    /\ [](RescanOnlyAfterRegister(path, log))
    /\ [](RescanFailed
            => /\ pc = "idle"
               /\ ret.op = "ensure"
               /\ ~ret.ok
               /\ ret.err = "NodeApi"
               /\ file = FileText(save_to_json_str(NodeScanRegistry(log[1].arg))))
    /\ \A c \in 0..MaxCalls :
         []((RescanFailed /\ calls = c) => []((calls > c) => LoadPathCall))

C24_Witness ==
    /\ path = "load"
    /\ pc = "wait_wallet"
    /\ log = <<>>
    /\ entry.path = "register"
    /\ Len(entry.log) = 3
    /\ ~entry.log[3].ok
    /\ entry.ret.err = "NodeApi"
    /\ registry = NodeScanRegistry(FirstNodeScanId)

-----------------------------------------------------------------------------
(* Properties of the parameterized contracts (ContractSpec) *)

(* The declared slots of the parameters: <<index, expected token id>> *)
DeclaredSlots(in) ==
    IF in.contract = "oracle"
    THEN {<<in.params.pool_nft_index, in.params.pool_nft_token_id>>}
    ELSE {<<in.params.refresh_nft_index, in.params.refresh_nft_token_id>>,
          <<in.params.update_nft_index, in.params.update_nft_token_id>>}

HasConstantAt(ergo_tree, index) ==
    ergo_tree.parsed /\ index + 1 \in DOMAIN ergo_tree.constants

(* the script has a constant at index and it is a token id other than id *)
HoldsOtherTokenId(ergo_tree, index, id) ==
    /\ HasConstantAt(ergo_tree, index)
    /\ \E t \in TokenIds \ {id} : ergo_tree.constants[index + 1] = TokenConstant(t)

HoldsTokenId(ergo_tree, index, id) ==
    /\ HasConstantAt(ergo_tree, index)
    /\ ergo_tree.constants[index + 1] = TokenConstant(id)

(* create was applied to a template with a constant at every declared slot *)
CreatedFromTemplateWithSlots ==
    /\ cIn.fn = "create"
    /\ cOut.stage # "none"
    /\ cIn.params.p2s.script_ok
    /\ \A sl \in DeclaredSlots(cIn) : HasConstantAt(cIn.params.p2s.tree, sl[1])

(* the token ids the accessors of contract c return, slot by slot *)
AccessorsReturnExpected(c) ==
    IF cIn.contract = "oracle"
    THEN OracleContract_pool_nft_token_id(c) = cIn.params.pool_nft_token_id
    ELSE /\ PoolContract_refresh_nft_token_id(c) = cIn.params.refresh_nft_token_id
         /\ PoolContract_update_nft_token_id(c) = cIn.params.update_nft_token_id

CreateThenVerifyOk ==
    /\ cOut.res.outcome = "Ok"
    /\ AccessorsReturnExpected(cOut.res.contract)
    /\ cOut.stage = "verified"
         => /\ cOut.check.outcome = "Ok"
            /\ AccessorsReturnExpected(cOut.check.contract)

(* C8 as claimed: for every template having a constant at each declared    *)
(* slot and every expected token id, create succeeds, verifying the script *)
(* it produced succeeds, and the accessors return the expected ids.        *)
C8_CreateAnySlot == CreatedFromTemplateWithSlots => CreateThenVerifyOk

(* C8, amended: for every template whose constant at each declared slot is *)
(* of the token id's type (Coll[Byte]) and, for PoolContract, whose two    *)
(* slots differ or are given the same id, create succeeds, verifying the   *)
(* script it produced succeeds, and the accessors return the expected ids. *)
C8_CreateThenVerify ==
    ( /\ CreatedFromTemplateWithSlots
      /\ \A sl \in DeclaredSlots(cIn) :
           cIn.params.p2s.tree.constants[sl[1] + 1].tpe = "Coll[Byte]"
      /\ \A s1, s2 \in DeclaredSlots(cIn) : s1[1] = s2[1] => s1[2] = s2[2] )
    => CreateThenVerifyOk

C8_Witness ==
    /\ cIn.contract = "pool"
    /\ cIn.fn = "create"
    /\ cOut.stage = "verified"
    /\ cIn.params.p2s.tree.constants = <<ShortBytesConstant, TokenConstant(1)>>
    /\ cIn.params.refresh_nft_index = 1
    /\ cIn.params.refresh_nft_token_id = 2
    /\ cIn.params.update_nft_index = 0
    /\ cIn.params.update_nft_token_id = 1
    /\ cOut.check.outcome = "Ok"
    /\ PoolContract_refresh_nft_token_id(cOut.check.contract) = 2
    /\ PoolContract_update_nft_token_id(cOut.check.contract) = 1

(* load or from_ergo_tree was applied to a script *)
Verified ==
    /\ cIn.fn \in {"load", "from_ergo_tree"}
    /\ cOut.stage = "returned"
    /\ cIn.fn = "load" => cIn.params.p2s.script_ok

IdentityMismatchErrors ==
    {"UnknownPoolNftId", "UnknownRefreshNftId", "UnknownUpdateNftId"}

(* C9 as claimed: for every script whose constant at a declared slot is a  *)
(* token id other than the expected one, load / from_ergo_tree fails with  *)
(* an identity-mismatch error.                                             *)
C9_MismatchError ==
    (Verified /\ \E sl \in DeclaredSlots(cIn) : HoldsOtherTokenId(cIn.tree, sl[1], sl[2]))
    => cOut.res.outcome \in IdentityMismatchErrors

(* C9, amended: for every script whose constant at a declared slot is a    *)
(* token id other than the expected one, load / from_ergo_tree never       *)
(* returns a contract; the error is the identity-mismatch error of that    *)
(* slot for the pool-NFT slot and the refresh-NFT slot, and for the        *)
(* update-NFT slot when the refresh-NFT slot holds its expected id         *)
(* (otherwise it is the refresh slot's error).  A successful verification  *)
(* implies every declared slot holds exactly its expected token id.        *)
C9_NoFalseAccept ==
    Verified
    => /\ cOut.res.outcome = "Ok"
            => \A sl \in DeclaredSlots(cIn) : HoldsTokenId(cIn.tree, sl[1], sl[2])
       /\ (\E sl \in DeclaredSlots(cIn) : HoldsOtherTokenId(cIn.tree, sl[1], sl[2]))
            => cOut.res.outcome \notin {"Ok", "panic"}
       /\ (cIn.contract = "oracle"
           /\ HoldsOtherTokenId(cIn.tree, cIn.params.pool_nft_index,
                                cIn.params.pool_nft_token_id))
            => cOut.res.outcome = "UnknownPoolNftId"
       /\ (cIn.contract = "pool"
           /\ HoldsOtherTokenId(cIn.tree, cIn.params.refresh_nft_index,
                                cIn.params.refresh_nft_token_id))
            => cOut.res.outcome = "UnknownRefreshNftId"
       /\ (cIn.contract = "pool"
           /\ HoldsOtherTokenId(cIn.tree, cIn.params.update_nft_index,
                                cIn.params.update_nft_token_id))
            => IF HoldsTokenId(cIn.tree, cIn.params.refresh_nft_index,
                               cIn.params.refresh_nft_token_id)
               THEN cOut.res.outcome = "UnknownUpdateNftId"
               ELSE cOut.res.outcome \in
                      {"NoRefreshNftId", "TryExtractFrom", "UnknownRefreshNftId"}

C9_Witness ==
    /\ Verified
    /\ cIn.contract = "pool"
    /\ cIn.fn = "from_ergo_tree"
    /\ HoldsTokenId(cIn.tree, cIn.params.refresh_nft_index,
                    cIn.params.refresh_nft_token_id)
    /\ HoldsOtherTokenId(cIn.tree, cIn.params.update_nft_index,
                         cIn.params.update_nft_token_id)
    /\ cOut.res.outcome = "UnknownUpdateNftId"

(* the script has no constant at index: the list is too short or cannot be *)
(* read at all                                                             *)
LacksConstantAt(ergo_tree, index) == ~HasConstantAt(ergo_tree, index)

(* C10: for every script that lacks a constant at a declared slot index    *)
(* (scripts whose constants cannot be read included), load / from_ergo_tree *)
(* returns the absence error of that slot and never panics (for the        *)
(* update-NFT slot: unless the refresh-NFT slot, checked first, has        *)
(* already failed with its own error).                                     *)
C10_AbsentSlotError ==
    Verified
    => /\ (cIn.contract = "oracle"
           /\ LacksConstantAt(cIn.tree, cIn.params.pool_nft_index))
            => cOut.res.outcome = "NoPoolNftId"
       /\ (cIn.contract = "pool"
           /\ LacksConstantAt(cIn.tree, cIn.params.refresh_nft_index))
            => cOut.res.outcome = "NoRefreshNftId"
       /\ (cIn.contract = "pool"
           /\ LacksConstantAt(cIn.tree, cIn.params.update_nft_index))
            => cOut.res.outcome \in
                 {"NoUpdateNftId", "NoRefreshNftId", "TryExtractFrom",
                  "UnknownRefreshNftId"}


(* the slots a constructed contract stores, each with the token id the     *)
(* parameters of its construction expect there                             *)
StoredSlots(c) ==
    IF cIn.contract = "oracle"
    THEN {<<c.pool_nft_index, cIn.params.pool_nft_token_id>>}
    ELSE {<<c.refresh_nft_index, cIn.params.refresh_nft_token_id>>,
          <<c.update_nft_index, cIn.params.update_nft_token_id>>}

(* the accessors of contract c return a token id (NoTokenId is a panic)    *)
AccessorsTotal(c) ==
    IF cIn.contract = "oracle"
    THEN OracleContract_pool_nft_token_id(c) # NoTokenId
    ELSE /\ PoolContract_refresh_nft_token_id(c) # NoTokenId
         /\ PoolContract_update_nft_token_id(c) # NoTokenId

ConstructedSound(r) ==
    r.outcome = "Ok"
    => /\ \A sl \in StoredSlots(r.contract) :
             HoldsTokenId(r.contract.ergo_tree, sl[1], sl[2])
       /\ AccessorsTotal(r.contract)
       /\ AccessorsReturnExpected(r.contract)

(* C11: every contract value returned by create, load or from_ergo_tree    *)
(* has, at each slot index it stores, a constant that is a token id equal  *)
(* to the expected id of the parameters used; the accessors return that id *)
(* and do not panic.                                                       *)
C11_ConstructedInvariant ==
    /\ cOut.stage # "none" => ConstructedSound(cOut.res)
    /\ cOut.stage = "verified" => ConstructedSound(cOut.check)

C11_Witness ==
    /\ cIn.contract = "pool"
    /\ cIn.fn = "load"
    /\ cOut.stage = "returned"
    /\ cOut.res.outcome = "Ok"
    /\ cOut.res.contract.refresh_nft_index = 1
    /\ cOut.res.contract.update_nft_index = 0
    /\ PoolContract_refresh_nft_token_id(cOut.res.contract) = 1
    /\ PoolContract_update_nft_token_id(cOut.res.contract) = 2


(* the slot indexes create binds, in the order of its with_constant calls  *)
CreateBindings(in) ==
    IF in.contract = "oracle" THEN <<in.params.pool_nft_index>>
    ELSE <<in.params.refresh_nft_index, in.params.update_nft_index>>

NoSlot == 0 - 1

(* binding a token id at index fails: no constant there, or one of another *)
(* type than Coll[Byte]                                                    *)
BindingFails(ergo_tree, index) ==
    \/ ~HasConstantAt(ergo_tree, index)
    \/ ergo_tree.constants[index + 1].tpe # "Coll[Byte]"

(* the slot of the first with_constant call of create that fails *)
FirstFailingSlot(in) ==
    LET b == CreateBindings(in) IN
    IF BindingFails(in.params.p2s.tree, b[1]) THEN b[1]
    ELSE IF Len(b) > 1 /\ BindingFails(in.params.p2s.tree, b[2]) THEN b[2]
    ELSE NoSlot

(* create was applied to a template whose constants can be read *)
CreatedFromTemplate ==
    /\ cIn.fn = "create"
    /\ cOut.stage # "none"
    /\ cIn.params.p2s.script_ok
    /\ cIn.params.p2s.tree.parsed

AbsenceErrors == {"NoPoolNftId", "NoRefreshNftId", "NoUpdateNftId"}

(* C12 as claimed: create on a template that lacks a constant at the slot  *)
(* index yields the missing-slot error of the contract, and a substitution *)
(* of an incompatible type yields the constant-binding error, two          *)
(* different error outcomes.                                               *)
C12_MissingSlotError ==
    CreatedFromTemplate
    => LET i == FirstFailingSlot(cIn) IN
       /\ (i # NoSlot /\ ~HasConstantAt(cIn.params.p2s.tree, i))
            => cOut.res.outcome \in AbsenceErrors
       /\ (i # NoSlot /\ HasConstantAt(cIn.params.p2s.tree, i))
            => cOut.res.outcome = "ErgoTreeConstant"

(* C12, amended: create reports both causes by the same error variant,     *)
(* ErgoTreeConstant; the causes differ only in the library error it wraps, *)
(* OutOfBounds for a template that lacks a constant at the slot index and  *)
(* TypeMismatch for a constant of an incompatible type (the slot being the *)
(* first one whose binding fails), and neither is wrapped otherwise.       *)
C12_CreateErrors ==
    CreatedFromTemplate
    => LET i == FirstFailingSlot(cIn) IN
       /\ (i # NoSlot /\ ~HasConstantAt(cIn.params.p2s.tree, i))
            => /\ cOut.res.outcome = "ErgoTreeConstant"
               /\ cOut.res.detail = "OutOfBounds"
       /\ (i # NoSlot /\ HasConstantAt(cIn.params.p2s.tree, i))
            => /\ cOut.res.outcome = "ErgoTreeConstant"
               /\ cOut.res.detail = "TypeMismatch"
       /\ i = NoSlot => cOut.res.outcome # "ErgoTreeConstant"

C12_Witness ==
    /\ CreatedFromTemplate
    /\ cIn.contract = "oracle"
    /\ cIn.params.p2s.tree.constants = <<TokenConstant(1)>>
    /\ cIn.params.pool_nft_index = 1
    /\ cOut.res.outcome = "ErgoTreeConstant"
    /\ cOut.res.detail = "OutOfBounds"


(* the declared slot at which PoolContract::from_ergo_tree fails on a      *)
(* script whose constants can be read                                      *)
PoolFailedSlot(ergo_tree, parameters) ==
    IF verify_slot(ergo_tree, parameters.refresh_nft_index,
                   parameters.refresh_nft_token_id, "absent", "unknown") # "Ok"
    THEN "refresh"
    ELSE IF verify_slot(ergo_tree, parameters.update_nft_index,
                        parameters.update_nft_token_id, "absent", "unknown") # "Ok"
    THEN "update"
    ELSE "none"

(* C13: every failure of PoolContract verification (slot absent, value of  *)
(* the wrong type, wrong token id) is reported by an error value that      *)
(* identifies the declared slot that failed: no verification that fails at *)
(* the other slot returns the same error value.                            *)
C13_ErrorIdentifiesSlot ==
    ( /\ Verified
      /\ cIn.contract = "pool"
      /\ cIn.tree.parsed
      /\ cOut.res.outcome # "Ok" )
    => \A tr \in Trees \ {UnparsedErgoTree}, ri \in Indexes, ui \in Indexes,
          rt \in TokenIds, ut \in TokenIds :
         LET other == PoolContractParameters(BadP2S, ri, rt, ui, ut)
             r == PoolContract_from_ergo_tree(tr, other) IN
         (r.outcome = cOut.res.outcome /\ r.detail = cOut.res.detail)
           => PoolFailedSlot(tr, other) = PoolFailedSlot(cIn.tree, cIn.params)


(* the script has a constant at index that is not a token id *)
IllTypedAt(ergo_tree, index) ==
    /\ HasConstantAt(ergo_tree, index)
    /\ \A t \in TokenIds : ergo_tree.constants[index + 1] # TokenConstant(t)

(* PoolContract::load or from_ergo_tree was applied and returned *)
PoolVerified ==
    /\ Verified
    /\ cIn.contract = "pool"
    /\ cOut.res.outcome # "panic"

UpdateSlotErrors == {"NoUpdateNftId", "UnknownUpdateNftId"}

(* C25: when PoolContract::from_ergo_tree returns, the refresh-NFT slot    *)
(* has been checked completely before the update-NFT slot: a refresh slot  *)
(* that is absent, ill-typed or mismatched yields its own error, the same  *)
(* whatever the update slot and its expected id are, and an error of the   *)
(* update slot is returned only when the refresh slot holds exactly the    *)
(* expected refresh token id.                                              *)
C25_RefreshBeforeUpdate ==
    PoolVerified
    => LET ri == cIn.params.refresh_nft_index
           rt == cIn.params.refresh_nft_token_id
           ui == cIn.params.update_nft_index
           res == cOut.res IN
       /\ LacksConstantAt(cIn.tree, ri) => res.outcome = "NoRefreshNftId"
       /\ IllTypedAt(cIn.tree, ri)
            => /\ res.outcome = "TryExtractFrom"
               /\ res.detail = cIn.tree.constants[ri + 1].tpe
       /\ HoldsOtherTokenId(cIn.tree, ri, rt) => res.outcome = "UnknownRefreshNftId"
       /\ ~HoldsTokenId(cIn.tree, ri, rt)
            => \A i \in Indexes, t \in TokenIds :
                 res = PoolContract_from_ergo_tree(
                         cIn.tree, [cIn.params EXCEPT !.update_nft_index = i,
                                                      !.update_nft_token_id = t])
       /\ res.outcome \in UpdateSlotErrors => HoldsTokenId(cIn.tree, ri, rt)
       /\ (res.outcome = "TryExtractFrom" /\ ~IllTypedAt(cIn.tree, ri))
            => /\ HoldsTokenId(cIn.tree, ri, rt)
               /\ IllTypedAt(cIn.tree, ui)

C25_Witness ==
    /\ PoolVerified
    /\ cIn.fn = "from_ergo_tree"
    /\ HoldsOtherTokenId(cIn.tree, cIn.params.refresh_nft_index,
                         cIn.params.refresh_nft_token_id)
    /\ LacksConstantAt(cIn.tree, cIn.params.update_nft_index)
    /\ cOut.res.outcome = "UnknownRefreshNftId"

(* PoolContract::create was applied to parameters that name one index for  *)
(* both slots and two different token ids                                  *)
CreatedWithSharedIndex ==
    /\ cIn.contract = "pool"
    /\ cIn.fn = "create"
    /\ cOut.stage # "none"
    /\ cIn.params.refresh_nft_index = cIn.params.update_nft_index
    /\ cIn.params.refresh_nft_token_id # cIn.params.update_nft_token_id

(* C26 as claimed: PoolContract::create with refresh_nft_index equal to    *)
(* update_nft_index and two different token ids never returns a contract   *)
(* and reports the refresh-NFT identity mismatch, UnknownRefreshNftId.     *)
C26_SharedIndexMismatch ==
    CreatedWithSharedIndex => cOut.res.outcome = "UnknownRefreshNftId"

(* C26, amended: PoolContract::create with refresh_nft_index equal to      *)
(* update_nft_index and two different token ids never returns a contract.  *)
(* When the template holds a byte-collection constant at that index both   *)
(* substitutions succeed, the second overwrites the first (the slot holds  *)
(* the update id) and the verification reports UnknownRefreshNftId;        *)
(* otherwise create fails before the verification, with SigmaParsing (no   *)
(* script) or with ErgoTreeConstant from the first substitution.           *)
C26_SharedIndexNeverOk ==
    CreatedWithSharedIndex
    => LET p == cIn.params
           i == p.refresh_nft_index IN
       /\ cOut.res.outcome \notin {"Ok", "panic"}
       /\ cOut.res.contract = NoPoolContract
       /\ ~p.p2s.script_ok => cOut.res.outcome = "SigmaParsing"
       /\ (p.p2s.script_ok /\ BindingFails(p.p2s.tree, i))
            => cOut.res.outcome = "ErgoTreeConstant"
       /\ (p.p2s.script_ok /\ ~BindingFails(p.p2s.tree, i))
            => /\ cOut.res.outcome = "UnknownRefreshNftId"
               /\ with_constant(
                    with_constant(p.p2s.tree, i,
                                  TokenConstant(p.refresh_nft_token_id)).tree,
                    i, TokenConstant(p.update_nft_token_id)).tree.constants[i + 1]
                  = TokenConstant(p.update_nft_token_id)

C26_Witness ==
    /\ CreatedWithSharedIndex
    /\ cIn.params.p2s.script_ok
    /\ ~BindingFails(cIn.params.p2s.tree, cIn.params.refresh_nft_index)
    /\ cOut.res.outcome = "UnknownRefreshNftId"

-----------------------------------------------------------------------------
(* Properties of the chained bootstrap (BootstrapSpec) *)

(* the step that mints token t *)
MintStepOf(t) == CHOOSE k \in DOMAIN BootstrapSteps : BootstrapSteps[k] = MintStep(t)

(* the blocks the run added to the chain *)
RunBlocks == (boot.start + 1)..Len(boot.chain.blocks)

(* the ids of token t minted by transactions of the run that are on chain *)
MintedOnChain(t) ==
    {boot.chain.blocks[n].minted : n \in {m \in RunBlocks :
        /\ boot.chain.blocks[m].step = MintStepOf(t)
        /\ boot.chain.blocks[m].minted # NoTokenId}}

(* log[j] reports the successful submission of the minting of t *)
MintSubmitted(j, t) ==
    boot.log[j] = BootLogEntry("submit", MintStepOf(t), TRUE)

(* C14: in every bootstrap run, for every token t and every contract c     *)
(* that embeds t's id, no build, sign or submit of the step creating c's   *)
(* box happens before the minting transaction of t has been submitted      *)
(* successfully (it is reported submitted and is on the chain).            *)
C14_MintBeforeContract ==
    \A i \in DOMAIN boot.log :
      BootstrapSteps[boot.log[i].step].kind = "box"
      => \A t \in Embeds(BootstrapSteps[boot.log[i].step].contract) :
           /\ \E j \in 1..(i - 1) : MintSubmitted(j, t)
           /\ MintedOnChain(t) # {}

C14_Witness ==
    /\ boot.pc = "verify"
    /\ BootstrapSteps[boot.step] = BoxStep("pool")
    /\ \E i \in DOMAIN boot.log : boot.log[i] = BootLogEntry("submit", boot.step, TRUE)
    /\ \A t \in Embeds("pool") : MintedOnChain(t) # {}

SubmittedOk == {i \in DOMAIN boot.log : boot.log[i].op = "submit" /\ boot.log[i].ok}

(* C15: in a successful run the final chain height is the height before    *)
(* the run plus the number of bootstrap transactions submitted; after one  *)
(* funding block it is 8.                                                  *)
C15_FinalHeight ==
    boot.pc = "done"
    => /\ boot.chain.height = boot.start + Cardinality(SubmittedOk)
       /\ boot.start = 1 => boot.chain.height = 8

C15_Witness ==
    /\ boot.pc = "done"
    /\ boot.submitter = "chain_sim"
    /\ boot.start = 1
    /\ boot.chain.height = 8

ObjectBoxes(tx) ==
    {b \in tx.outputs : b.token # NoTokenId \/ b.ergo_tree # P2PkScript}

LastLogged == boot.log[Len(boot.log)]

(* C17: if the submission of step k fails, the boxes created by steps      *)
(* 1..k-1 remain on the chain (the chain holds exactly the run's earlier   *)
(* transactions, in order, and their object boxes are unspent), the run    *)
(* returns an error and no configuration, and the error names step k.      *)
C17_PartialFailure ==
    (boot.pc = "failed" /\ boot.result.cause = "submit")
    => /\ LastLogged = BootLogEntry("submit", boot.step, FALSE)
       /\ boot.result.outcome = "Err"
       /\ boot.result.step = boot.step
       /\ boot.result.pool_contract = NoPoolContract
       /\ boot.result.oracle_contract = NoOracleContract
       /\ Len(boot.chain.blocks) = boot.start + boot.step - 1
       /\ \A j \in 1..(boot.step - 1) :
            /\ boot.chain.blocks[boot.start + j].step = j
            /\ ObjectBoxes(boot.chain.blocks[boot.start + j]) # {}
            /\ ObjectBoxes(boot.chain.blocks[boot.start + j])
                 \subseteq boot.chain.unspent_boxes

C17_Witness ==
    /\ boot.pc = "failed"
    /\ boot.result.cause = "submit"
    /\ boot.result.step = 3
    /\ Len(boot.chain.blocks) = boot.start + 2
    /\ \E b \in boot.chain.unspent_boxes : b.step = 1 /\ b.token # NoTokenId
    /\ \E b \in boot.chain.unspent_boxes : b.step = 2 /\ b.token # NoTokenId

(* C18: no automatic retry: a failed sign or submit is the last call of    *)
(* the run; every step's transaction is submitted at most once and is at   *)
(* most once on the chain; no step after the failed one is attempted.      *)
C18_NoRetry ==
    /\ \A i \in DOMAIN boot.log :
         (boot.log[i].op \in {"sign", "submit"} /\ ~boot.log[i].ok)
           => i = Len(boot.log)
    /\ \A i, j \in DOMAIN boot.log :
         (i < j /\ boot.log[i].op = boot.log[j].op)
           => boot.log[i].step < boot.log[j].step
    /\ \A m, n \in RunBlocks :
         m < n => boot.chain.blocks[m].step < boot.chain.blocks[n].step
    /\ boot.pc = "failed"
         => \A i \in DOMAIN boot.log : boot.log[i].step <= boot.result.step

C18_Witness ==
    /\ boot.pc = "failed"
    /\ boot.result.cause = "sign"
    /\ boot.result.step = 2
    /\ LastLogged = BootLogEntry("sign", 2, FALSE)
    /\ Len(boot.chain.blocks) = boot.start + 1

-----------------------------------------------------------------------------
(* Properties of the main loop (MainSpec) *)

(* the calls of main_loop_iteration whose error it returns with `?` *)
FatalCalls ==
    {"current_block_height", "process", "get_change_address_from_node",
     "build_action", "execute_action"}

RunLastCall == run.log[Len(run.log)]

RunCalled(op) == \E i \in DOMAIN run.log : run.log[i].op = op

(* C27: in the Run command with read_only set, execute_action is called in *)
(* no iteration, whatever the pool state and the height; the action is     *)
(* still built when process returns a command, and a failure while reading *)
(* the height, processing the state or building the action ends the        *)
(* process with the software-error exit code.                              *)
C27_ReadOnlyNeverExecutes ==
    (run.pc # "none" /\ run.read_only)
    => /\ run.executed = <<>>
       /\ ~RunCalled("execute_action")
       /\ (run.cmd # NoCommand /\ run.pc \in {"read_only", "sleep"})
            => /\ RunLastCall = CallLog("build_action", TRUE)
               /\ run.action = PoolAction(run.cmd, run.height)
               /\ run.height \in 0..MaxHeight
               /\ run.pool_state \in PoolStates
       /\ (run.log # <<>> /\ ~RunLastCall.ok /\ RunLastCall.op \in FatalCalls)
            => /\ run.pc = "exited"
               /\ run.exit = SOFTWARE
       /\ run.pc = "exited"
            => /\ run.exit = SOFTWARE
               /\ ~RunLastCall.ok
               /\ RunLastCall.op \in FatalCalls
       /\ run.pc # "exited" => run.exit = NoExit

C27_Witness ==
    /\ run.read_only
    /\ run.iteration > 1
    /\ run.pc = "sleep"
    /\ run.pool_state = "NeedsBootstrap"
    /\ run.action = PoolAction(NumCommands, 1)
    /\ run.executed = <<>>

-----------------------------------------------------------------------------
(* Properties of the datapoint source (SourceSpec) *)

SourceReturned == dps.pc \in {"constructed", "failed"}

(* C28: RuntimeDataPointSource::new selects the external script whenever a *)
(* custom script command is given, whatever the predefined source; it      *)
(* selects the predefined source only when no custom script is given; it   *)
(* fails only when both are absent; every get_datapoint makes exactly the  *)
(* call of the selected variant, on the selected script or source.         *)
C28_SourceSelection ==
    SourceReturned
    => /\ dps.custom.some
            => /\ dps.new_ok
               /\ dps.source = ExternalScript(dps.custom.value)
       /\ dps.source.variant = "Predefined"
            => /\ ~dps.custom.some
               /\ dps.predef.some
               /\ dps.source.of = dps.predef.value
       /\ (~dps.custom.some /\ dps.predef.some)
            => /\ dps.new_ok
               /\ dps.source = Predefined(dps.predef.value)
       /\ ~dps.new_ok <=> (~dps.custom.some /\ ~dps.predef.some)
       /\ ~dps.new_ok => (dps.pc = "failed" /\ dps.calls = <<>>)
       /\ Len(dps.calls) = Len(dps.results)
       /\ \A i \in DOMAIN dps.calls :
            dps.calls[i] =
              IF dps.custom.some
              THEN SourceCall("ExternalScript::get_datapoint", dps.custom.value)
              ELSE SourceCall("sync_fetch_predef_source_aggregated",
                              dps.predef.value)

C28_Witness ==
    /\ dps.pc = "constructed"
    /\ dps.custom = Some("")
    /\ dps.predef = Some("NanoErgUsd")
    /\ dps.source = ExternalScript("")
    /\ Len(dps.calls) > 1
    /\ dps.calls[1].fn = "ExternalScript::get_datapoint"
    /\ ~dps.results[1].ok

=============================================================================
